---- MODULE Spec2Model ----
(***************************************************************************)
(* Product-quantization codec and two-phase search of the sense-embedding  *)
(* ingestion pipeline (src/src/ingestion).                                 *)
(*                                                                         *)
(* Floating-point values are modelled as integers: every distance is an    *)
(* exact sum of squares.  Sequences are 1-based, so Python index i is      *)
(* position i+1 here.                                                      *)
(***************************************************************************)
EXTENDS Integers, Sequences, FiniteSets, TLC

VARIABLES
    pc,            \* position of the running operation
    nbits,         \* pq.nbits
    m,             \* pq.M / codebook.shape[0]
    codebook,      \* [m][k][d_sub] centroid array
    vectors,       \* (N, dim) matrix handed to encode_vectors / train_pq
    assign,        \* centroid ids chosen inside pq.compute_codes, before packing
    codes_packed,  \* result of pq.compute_codes: (N, code_size) bytes
    codes,         \* result of _decode_pq_codes: (N, m) centroid ids
    entry,         \* the function that was called: where control returns to
    error,         \* exception that ended the operation, "none" while there is none
    query_vec,     \* query_vec argument of the search functions
    top_n,         \* top_n argument
    final_k,       \* final_k argument
    pq_table,      \* code store: rows (id, code_vector) of the quantization table
    raw_table,     \* raw store: id -> full-precision vector of the raw table
    sql_log,       \* statements executed on the cursor, in order
    dist_table,    \* pq_search: dist_table
    rows,          \* rows returned by the last cur.fetchall()
    ids,           \* pq_search: ids array
    scores,        \* pq_search: scores array
    candidate_ids, \* pq_search result / post_verify argument
    approx_dists,  \* pq_search result
    results,       \* post_verify result: records (id, distance)
    dim,           \* train_pq: dim argument
    m_subspaces,   \* train_pq: m_subspaces argument
    train_size,    \* train_pq: train_size argument, 0 for None
    train_vecs,    \* train_pq: the training set, "unset" before line 49
    log_out,       \* levels of the messages train_pq has logged
    pq,            \* train_pq: the quantizer returned, "none" before
    loop,          \* locals of the loop the called function runs (_decode_pq_codes, the importers)
    files,         \* file system: path -> the pickled objects the file holds, in order
    saves,         \* save_codebook calls so far, in order: records (filepath, codebook)
    filepath,      \* load_codebook: the filepath argument of the last call, "" before
    config,        \* index configuration: the codebook_file and export_codebook keys
    db_ids,        \* run_ingest: ids returned by import_raw_vectors, in order
    centroid_table,\* centroid store: the codebook table, <<>> while empty
    centroids,     \* pq.centroids of the quantizer run_ingest encodes with (flat)
    other          \* locals of a second search running at the same time, <<>> if none

codecVars == <<nbits, m, vectors, assign, codes_packed, codes>>

queryVars == <<entry, query_vec, top_n, final_k, pq_table, raw_table>>

scoreVars == <<dist_table, ids, scores, candidate_ids, approx_dists>>

trainVars == <<dim, m_subspaces, train_size, train_vecs, log_out, pq>>

fileVars == <<files, saves, filepath>>

ingestVars == <<config, db_ids, centroid_table, centroids>>

pipelineVars == <<loop, fileVars, ingestVars, other>>

vars == <<pc, error, codebook, codecVars, queryVars, scoreVars, sql_log, rows, results,
          trainVars, pipelineVars>>

(***************************************************************************)
(* Bounds                                                                  *)
(***************************************************************************)
MaxBits == 14      \* bits of packed payload per encode_vectors call (N * m * nbits)
MaxRows == 2       \* rows handed to _decode_pq_codes
MaxCells == 8      \* scalars of a codebook drawn for encoding (m * k * d_sub)
MaxCoord == 1      \* vector and centroid coordinates are drawn from 0..MaxCoord
MaxCorpus == 3     \* rows of the code store and of the raw store
MaxBudget == 3     \* top_n and final_k are drawn from 0..MaxBudget
MaxTrain == 3      \* vectors handed to train_pq
MaxTrainDim == 3   \* dim and m_subspaces handed to train_pq
MaxTrainBits == 2  \* nbits handed to train_pq
MaxQueryCells == 4 \* scalars of a codebook drawn for pq_search (m * k * d_sub)
MaxSearchCells == 2 \* scalars of a codebook drawn for a two-phase search
MaxPackedBytes == 2 \* bytes of an arbitrary packed array handed to _decode_pq_codes
MaxSaves == 2      \* save_codebook calls before a load_codebook call
MaxSavedCells == 4 \* scalars of a codebook handed to save_codebook (m * k * d_sub)
MaxIngest == 2     \* vectors of the corpus handed to run_ingest
MaxIngestCells == 2 \* scalars of the codebook of an ingest (m * k * d_sub)
MaxShared == 2     \* rows of the stores two concurrent searches share
MaxSharedBudget == 2 \* top_n and final_k of concurrent searches are drawn from 1..MaxSharedBudget
MaxRecallCorpus == 3 \* rows of the stores two searches with different top_n run over
MaxItems == 3      \* items handed to import_raw_vectors / import_pq_codes
MaxBatch == 3      \* batch_size is drawn from 1..MaxBatch
MaxRecallBudget == 1 \* the smaller top_n and final_k are drawn from 1..MaxRecallBudget

(***************************************************************************)
(* Arithmetic helpers standing for Python / numpy integer operators        *)
(***************************************************************************)
Pow2(n) == 2 ^ n

Shr(x, n) == x \div Pow2(n)

Shl(x, n) == x * Pow2(n)

RECURSIVE BitAnd(_, _)
BitAnd(a, b) ==
    IF a = 0 \/ b = 0 THEN 0
    ELSE (IF a % 2 = 1 /\ b % 2 = 1 THEN 1 ELSE 0) + 2 * BitAnd(a \div 2, b \div 2)

RECURSIVE BitOr(_, _)
BitOr(a, b) ==
    IF a = 0 THEN b
    ELSE IF b = 0 THEN a
    ELSE (IF a % 2 = 1 \/ b % 2 = 1 THEN 1 ELSE 0) + 2 * BitOr(a \div 2, b \div 2)

Bit(x, n) == Shr(x, n) % 2

Min(a, b) == IF a <= b THEN a ELSE b

RECURSIVE SumSeq(_)
SumSeq(s) == IF s = <<>> THEN 0 ELSE Head(s) + SumSeq(Tail(s))

\* np.sum((a - b) ** 2) of two equally long vectors
SqDistSigned(a, b) == SumSeq([t \in 1..Len(a) |-> a[t] - b[t]])

SqDist(a, b) == SumSeq([t \in 1..Len(a) |-> (a[t] - b[t]) * (a[t] - b[t])])

\* codebook.shape
ShapeM(cb) == Len(cb)

ShapeK(cb) == Len(cb[1])

ShapeDsub(cb) == Len(cb[1][1])

\* v[j * d_sub : (j + 1) * d_sub], Python slice semantics (clipped to len(v))
SubVector(v, j, d_sub) ==
    LET lo == Min(j * d_sub, Len(v))
        hi == Min((j + 1) * d_sub, Len(v))
    IN  [t \in 1..(hi - lo) |-> v[lo + t]]

Coords == 0..MaxCoord

\* number of bytes of one packed row: pq.code_size
CodeSize(mm, nb) == (mm * nb + 7) \div 8

(***************************************************************************)
(* pq.compute_codes packing (FAISS): the m values of one row are written   *)
(* as one bit string, nbits per value, least significant bit first, no     *)
(* padding between values; the unused high bits of the last byte are 0.    *)
(***************************************************************************)
StreamBit(code, nb, t) ==
    IF t < Len(code) * nb THEN Bit(code[(t \div nb) + 1], t % nb) ELSE 0

RECURSIVE PackByte(_, _, _, _)
PackByte(code, nb, b, t) ==
    IF t = 8 THEN 0
    ELSE Shl(StreamBit(code, nb, 8 * b + t), t) + PackByte(code, nb, b, t + 1)

PackRow(code, nb) ==
    [b \in 1..CodeSize(Len(code), nb) |-> PackByte(code, nb, b - 1, 0)]

PackCodes(cs, nb) == [i \in 1..Len(cs) |-> PackRow(cs[i], nb)]

(***************************************************************************)
(* pq.compute_codes assignment (FAISS): per subspace, the centroids are     *)
(* scanned in index order and a centroid replaces the best one only when   *)
(* it is strictly nearer, so the lowest index wins a tie.                  *)
(***************************************************************************)
RECURSIVE NearestScan(_, _, _, _)
NearestScan(sub, cents, c, best) ==
    IF c > Len(cents) THEN best - 1
    ELSE IF SqDist(sub, cents[c]) < SqDist(sub, cents[best])
         THEN NearestScan(sub, cents, c + 1, c)
         ELSE NearestScan(sub, cents, c + 1, best)

AssignVector(v, cb) ==
    [j \in 1..ShapeM(cb) |->
        NearestScan(SubVector(v, j - 1, ShapeDsub(cb)), cb[j], 2, 1)]

AssignCodes(vs, cb) == [i \in 1..Len(vs) |-> AssignVector(vs[i], cb)]

(***************************************************************************)
(* _decode_pq_codes                                                        *)
(***************************************************************************)
\* one iteration of the inner loop (lines 139-154): the value read at bit_offset
DecodeFieldSwapped(row, bit_offset, nb) ==
    LET byte_idx    == bit_offset \div 8
        bit_in_byte == bit_offset % 8
    IN  IF bit_in_byte + nb <= 8
        THEN BitAnd(Shr(row[byte_idx + 1], bit_in_byte), Shl(1, nb) - 1)
        ELSE LET bits_from_first  == 8 - bit_in_byte
                 bits_from_second == nb - bits_from_first
                 code_low  == Shr(row[byte_idx + 1], bit_in_byte)
                 code_high == BitAnd(row[byte_idx + 2], Shl(1, bits_from_second) - 1)
             IN  BitOr(code_high, Shl(code_low, bits_from_second))

DecodeField(row, bit_offset, nb) ==
    LET byte_idx    == bit_offset \div 8
        bit_in_byte == bit_offset % 8
    IN  IF bit_in_byte + nb <= 8
        THEN LET mask == Shl(1, nb) - 1
             IN  BitAnd(Shr(row[byte_idx + 1], bit_in_byte), mask)
        ELSE LET bits_from_first  == 8 - bit_in_byte
                 bits_from_second == nb - bits_from_first
                 code_low  == Shr(row[byte_idx + 1], bit_in_byte)
                 code_high == BitAnd(row[byte_idx + 2], Shl(1, bits_from_second) - 1)
             IN  BitOr(code_low, Shl(code_high, bits_from_first))

\* the inner loop over j (lines 136-157); bit_offset starts at 0 and grows by nbits
RECURSIVE DecodeLoopByteStep(_, _, _, _, _)
DecodeLoopByteStep(row, j, bit_offset, mm, nb) ==
    IF j = mm THEN <<>>
    ELSE <<DecodeField(row, Min(bit_offset, 8 * (Len(row) - 1)), nb) % 256>>
             \o DecodeLoopByteStep(row, j + 1, bit_offset + 8, mm, nb)

RECURSIVE DecodeLoop(_, _, _, _, _)
DecodeLoop(row, j, bit_offset, mm, nb) ==
    IF j = mm THEN <<>>
    ELSE <<DecodeField(row, bit_offset, nb) % 256>>
             \o DecodeLoop(row, j + 1, bit_offset + nb, mm, nb)

DecodeRow(row, mm, nb) == DecodeLoop(row, 0, 0, mm, nb)

_decode_pq_codes(packed, mm, nb) ==
    IF nb = 8 THEN packed
    ELSE [i \in 1..Len(packed) |-> DecodeRow(packed[i], mm, nb)]

\* the decode loop is not running
NoDecodeLoop == loop = "idle"

\* the variables of the pipelines in a run of a single function
\* no file is read or written
NoFiles ==
    /\ files = <<>>
    /\ saves = <<>>
    /\ filepath = ""

\* run_ingest is not running
NoIngest ==
    /\ config = [codebook_file |-> "", export_codebook |-> ""]
    /\ db_ids = <<>>
    /\ centroid_table = <<>>
    /\ centroids = <<>>

\* no second search is running
NoOther == other = <<>>

NoPipeline ==
    /\ NoDecodeLoop
    /\ NoFiles
    /\ NoIngest
    /\ NoOther

\* train_pq is not running
TrainIdle ==
    /\ dim = 0
    /\ m_subspaces = 0
    /\ train_size = 0
    /\ train_vecs = "unset"
    /\ log_out = <<>>
    /\ pq = "none"

\* no search is running and there are no stores
QueryIdle ==
    /\ error = "none"
    /\ query_vec = <<>>
    /\ top_n = 0
    /\ final_k = 0
    /\ pq_table = <<>>
    /\ raw_table = <<>>
    /\ sql_log = <<>>
    /\ dist_table = <<>>
    /\ rows = <<>>
    /\ ids = <<>>
    /\ scores = <<>>
    /\ candidate_ids = <<>>
    /\ approx_dists = <<>>
    /\ results = <<>>

\* the query-side variables of a run that performs no query
NoTraining ==
    /\ NoPipeline
    /\ TrainIdle

NoQuery ==
    /\ NoTraining
    /\ QueryIdle

(***************************************************************************)
(* Codec specification: pack an arbitrary logical code, then decode it     *)
(***************************************************************************)
CodecShapes ==
    {s \in (1..MaxRows) \X (1..MaxBits) \X (1..8) : s[1] * s[2] * s[3] <= MaxBits}

InitCodec ==
    /\ pc = "compute_codes"
    /\ \E s \in CodecShapes :
          /\ m = s[2]
          /\ nbits = s[3]
          /\ assign \in [1..s[1] -> [1..s[2] -> 0..(Pow2(s[3]) - 1)]]
    /\ codebook = <<>>
    /\ vectors = <<>>
    /\ codes_packed = <<>>
    /\ codes = <<>>
    /\ entry = "encode_vectors"
    /\ NoQuery

\* the packing half of pq.compute_codes (pq_trainer.py line 177)
PackAssigned ==
    /\ pc = "compute_codes"
    /\ codes_packed' = PackCodes(assign, nbits)
    /\ pc' = "decode"
    /\ UNCHANGED <<nbits, m, codebook, vectors, assign, codes>>
    /\ UNCHANGED <<error, queryVars, scoreVars, sql_log, rows, results>>
    /\ UNCHANGED trainVars
    /\ UNCHANGED pipelineVars

\* codes = _decode_pq_codes(pq, codes_packed) (pq_trainer.py line 179)
Decode ==
    /\ pc = "decode"
    /\ codes' = _decode_pq_codes(codes_packed, m, nbits)
    /\ pc' = "encoded"
    /\ UNCHANGED <<nbits, m, codebook, vectors, assign, codes_packed>>
    /\ UNCHANGED <<error, queryVars, scoreVars, sql_log, rows, results>>
    /\ UNCHANGED trainVars
    /\ UNCHANGED pipelineVars

NextCodec == PackAssigned \/ Decode

SpecCodec == InitCodec /\ [][NextCodec]_vars

\* C1: for every nbits in 1..8, every M and every logical code with values in
\* [0, 2^nbits), decoding the tight LSB-first packing of the code returns the
\* code itself: unpack(pack(code)) = code.
C1_RoundTrip ==
    pc = "encoded" =>
        /\ Len(codes) = Len(assign)
        /\ \A i \in 1..Len(assign) :
              /\ Len(codes[i]) = m
              /\ \A j \in 1..m : codes[i][j] = assign[i][j]

\* a value whose bits straddle a byte boundary has been packed and decoded
C1_Witness ==
    /\ pc = "encoded"
    /\ nbits = 3
    /\ m = 3
    /\ assign[1][3] = 5
    /\ codes[1][3] = 5

(***************************************************************************)
(* Encoding specification: encode_vectors on a drawn vector and codebook   *)
(***************************************************************************)
EncodeShapes ==
    {s \in (1..MaxCells) \X (1..8) \X (1..MaxCells) :
        s[1] * Pow2(s[2]) * s[3] <= MaxCells}

InitEncode ==
    /\ pc = "compute_codes"
    /\ \E s \in EncodeShapes :
          /\ m = s[1]
          /\ nbits = s[2]
          /\ codebook \in [1..s[1] -> [1..Pow2(s[2]) -> [1..s[3] -> Coords]]]
          /\ vectors \in [1..1 -> [1..(s[1] * s[3]) -> Coords]]
    /\ assign = <<>>
    /\ codes_packed = <<>>
    /\ codes = <<>>
    /\ entry = "encode_vectors"
    /\ NoQuery

\* codes_packed = pq.compute_codes(vectors) (pq_trainer.py line 177)
ComputeCodes ==
    /\ pc = "compute_codes"
    /\ assign' = AssignCodes(vectors, codebook)
    /\ codes_packed' = PackCodes(assign', nbits)
    /\ pc' = "decode"
    /\ UNCHANGED <<nbits, m, codebook, vectors, codes>>
    /\ UNCHANGED <<error, queryVars, scoreVars, sql_log, rows, results>>
    /\ UNCHANGED trainVars
    /\ UNCHANGED pipelineVars

NextEncode == ComputeCodes \/ Decode

SpecEncode == InitEncode /\ [][NextEncode]_vars

\* C6: encode_vectors yields, for every vector and subspace j, the index of a
\* centroid of subspace j at minimum squared Euclidean distance from the
\* vector's j-th slice, and the lowest such index among ties.
C6_EncodeArgmin ==
    pc = "encoded" =>
        \A i \in 1..Len(vectors) :
            /\ Len(codes[i]) = m
            /\ \A j \in 1..m :
                  LET sub == SubVector(vectors[i], j - 1, ShapeDsub(codebook))
                      c   == codes[i][j]
                  IN  /\ c \in 0..(ShapeK(codebook) - 1)
                      /\ \A c2 \in 0..(ShapeK(codebook) - 1) :
                            /\ SqDist(sub, codebook[j][c + 1])
                                  <= SqDist(sub, codebook[j][c2 + 1])
                            /\ c2 < c => SqDist(sub, codebook[j][c + 1])
                                            < SqDist(sub, codebook[j][c2 + 1])

\* two centroids of the second subspace tie at the minimum and the lower wins
C6_Witness ==
    /\ pc = "encoded"
    /\ nbits = 2
    /\ m = 2
    /\ codebook[2][2] = codebook[2][4]
    /\ codebook[2][1] # codebook[2][2]
    /\ SubVector(vectors[1], 1, 1) = codebook[2][2]
    /\ codes[1][2] = 1

(***************************************************************************)
(* search.py: distance table, approximate scoring, exact re-ranking        *)
(***************************************************************************)
Range(f) == {f[x] : x \in DOMAIN f}

\* the orders in which n things can be arranged
Perms(n) == {p \in [1..n -> 1..n] : \A a, b \in 1..n : a # b => p[a] # p[b]}

\* s[:k], Python slice semantics
SliceTo(s, k) ==
    IF k >= 0 THEN SubSeq(s, 1, Min(k, Len(s)))
    ELSE SubSeq(s, 1, IF Len(s) + k > 0 THEN Len(s) + k ELSE 0)

\* lines 46-53: dist_table[j] = np.sum((codebook[j] - sub_q) ** 2, axis=1)
_build_distance_table_first_slice(q, cb) ==
    LET d_sub == ShapeDsub(cb)
    IN  [j \in 1..ShapeM(cb) |->
            LET sub_q == SubVector(q, 0, d_sub)
            IN  [c \in 1..ShapeK(cb) |->
                    SumSeq([t \in 1..d_sub |->
                        (cb[j][c][t] - sub_q[t]) * (cb[j][c][t] - sub_q[t])])]]

_build_distance_table(q, cb) ==
    LET d_sub == ShapeDsub(cb)
    IN  [j \in 1..ShapeM(cb) |->
            LET sub_q == SubVector(q, j - 1, d_sub)
            IN  [c \in 1..ShapeK(cb) |->
                    SumSeq([t \in 1..d_sub |->
                        (cb[j][c][t] - sub_q[t]) * (cb[j][c][t] - sub_q[t])])]]

\* lines 103-105: total = 0.0; for j in range(m): total += dist_table[j, code_vec[j]]
RECURSIVE ScoreLoopFirstCode(_, _, _, _, _)
ScoreLoopFirstCode(dt, code_vec, j, mm, total) ==
    IF j = mm THEN total
    ELSE ScoreLoopFirstCode(dt, code_vec, j + 1, mm, total + dt[j + 1][code_vec[1] + 1])

RECURSIVE ScoreLoop(_, _, _, _, _)
ScoreLoop(dt, code_vec, j, mm, total) ==
    IF j = mm THEN total
    ELSE ScoreLoop(dt, code_vec, j + 1, mm, total + dt[j + 1][code_vec[j + 1] + 1])

\* np.argsort(sc): an index order that makes sc ascending; the order of equal
\* scores is not specified
ArgSortDescending(sc) ==
    {p \in Perms(Len(sc)) : \A a, b \in 1..Len(sc) : a < b => sc[p[a]] >= sc[p[b]]}

ArgSort(sc) ==
    {p \in Perms(Len(sc)) : \A a, b \in 1..Len(sc) : a < b => sc[p[a]] <= sc[p[b]]}

\* np.argpartition(sc, kth), 0 <= kth < len(sc): position kth holds what a sort
\* would put there, smaller-or-equal scores before it, larger-or-equal after it
ArgPartitionUnordered(sc, kth) == Perms(Len(sc))

ArgPartition(sc, kth) ==
    {p \in Perms(Len(sc)) :
        /\ \A a \in 1..kth : sc[p[a]] <= sc[p[kth + 1]]
        /\ \A b \in (kth + 2)..Len(sc) : sc[p[b]] >= sc[p[kth + 1]]}

\* lines 110-116: the index orders top_indices can take
TopIndicesAll(sc, n_top) == ArgSort(sc)

TopIndices(sc, n_top) ==
    LET tn == Min(n_top, Len(sc))
    IN  IF tn >= Len(sc)
        THEN {SliceTo(p, tn) : p \in ArgSort(sc)}
        ELSE UNION {
                 LET part == SliceTo(q, tn)
                     sub  == [a \in 1..Len(part) |-> sc[part[a]]]
                 IN  {[a \in 1..Len(part) |-> part[r[a]]] : r \in ArgSort(sub)}
                 : q \in ArgPartition(sc, tn) }

\* list.sort(key=distance): stable insertion of r into the sorted list s
RECURSIVE InsertSorted(_, _)
InsertSorted(s, r) ==
    IF s = <<>> THEN <<r>>
    ELSE IF r.distance < Head(s).distance THEN <<r>> \o s
    ELSE <<Head(s)>> \o InsertSorted(Tail(s), r)

RECURSIVE SortByDistance(_)
SortByDistance(s) ==
    IF s = <<>> THEN <<>>
    ELSE InsertSorted(SortByDistance(SubSeq(s, 1, Len(s) - 1)), s[Len(s)])

\* lines 176-193: one result per fetched row, with its exact distance
ExactResults(q, fetched) ==
    [a \in 1..Len(fetched) |->
        [id |-> fetched[a].id, distance |-> SqDist(q, fetched[a].vector)]]

\* lines 196-197
RankedResultsUnsorted(q, fetched, k) == SliceTo(ExactResults(q, fetched), k)

RankedResults(q, fetched, k) == SliceTo(SortByDistance(ExactResults(q, fetched)), k)

\* lines 40-44: assert len(query_vec) == m * d_sub
QueryDimAtLeast(q, cb) == Len(q) >= ShapeM(cb) * ShapeDsub(cb)

QueryDimMatches(q, cb) == Len(q) = ShapeM(cb) * ShapeDsub(cb)

\* _build_distance_table, alone or called from pq_search (lines 86-90)
BuildTable ==
    /\ pc = "build_table"
    /\ IF ~QueryDimMatches(query_vec, codebook)
       THEN /\ error' = "AssertionError"
            /\ pc' = "failed"
            /\ UNCHANGED dist_table
       ELSE /\ dist_table' = _build_distance_table(query_vec, codebook)
            /\ pc' = IF entry = "_build_distance_table" THEN "done" ELSE "fetch_codes"
            /\ UNCHANGED error
    /\ UNCHANGED <<codebook, codecVars, queryVars, sql_log, rows, results>>
    /\ UNCHANGED <<ids, scores, candidate_ids, approx_dists>>
    /\ UNCHANGED trainVars
    /\ UNCHANGED pipelineVars

\* pq_search lines 93-94: SELECT id, code_vector over the whole table. The rows
\* come back in the order the table holds them; the order of equally scored
\* rows in the result is left open by ArgSort and ArgPartition below.
FetchCodesConsuming ==
    /\ pc = "fetch_codes"
    /\ sql_log' = Append(sql_log, "select_codes")
    /\ rows' = pq_table
    /\ pq_table' = <<>>
    /\ pc' = "score"
    /\ UNCHANGED <<error, codebook, codecVars, scoreVars, results>>
    /\ UNCHANGED <<entry, query_vec, top_n, final_k, raw_table>>
    /\ UNCHANGED trainVars
    /\ UNCHANGED pipelineVars

FetchCodes ==
    /\ pc = "fetch_codes"
    /\ sql_log' = Append(sql_log, "select_codes")
    /\ rows' = pq_table
    /\ pc' = "score"
    /\ UNCHANGED <<error, codebook, codecVars, queryVars, scoreVars, results>>
    /\ UNCHANGED trainVars
    /\ UNCHANGED pipelineVars

\* pq_search lines 99-107
Score ==
    /\ pc = "score"
    /\ ids' = [idx \in 1..Len(rows) |-> rows[idx].id]
    /\ scores' = [idx \in 1..Len(rows) |->
                     ScoreLoop(dist_table, rows[idx].code_vector, 0, ShapeM(codebook), 0)]
    /\ pc' = "top_n"
    /\ UNCHANGED <<error, codebook, codecVars, queryVars, sql_log, rows, results>>
    /\ UNCHANGED <<dist_table, candidate_ids, approx_dists>>
    /\ UNCHANGED trainVars
    /\ UNCHANGED pipelineVars

\* pq_search lines 110-125
TopN ==
    /\ pc = "top_n"
    /\ \E top_indices \in TopIndices(scores, top_n) :
          /\ candidate_ids' = [a \in 1..Len(top_indices) |-> ids[top_indices[a]]]
          /\ approx_dists' = [a \in 1..Len(top_indices) |-> scores[top_indices[a]]]
    /\ pc' = IF entry = "pq_search" THEN "done" ELSE "post_verify"
    /\ UNCHANGED <<error, codebook, codecVars, queryVars, sql_log, rows, results>>
    /\ UNCHANGED <<dist_table, ids, scores>>
    /\ UNCHANGED trainVars
    /\ UNCHANGED pipelineVars

\* post_verify lines 154-169: empty candidate list returns at once, otherwise
\* SELECT ... WHERE id IN (candidates) yields the rows that exist, in no
\* particular order
FetchRawUnguarded ==
    /\ pc = "post_verify"
    /\ sql_log' = Append(sql_log, "select_raw")
    /\ LET hit == Range(candidate_ids) \cap DOMAIN raw_table
       IN  \E order \in [1..Cardinality(hit) -> hit] :
              /\ Range(order) = hit
              /\ rows' = [a \in 1..Cardinality(hit) |->
                             [id |-> order[a], vector |-> raw_table[order[a]]]]
    /\ pc' = "rerank"
    /\ UNCHANGED results
    /\ UNCHANGED <<error, codebook, codecVars, queryVars, scoreVars>>
    /\ UNCHANGED trainVars
    /\ UNCHANGED pipelineVars

FetchRaw ==
    /\ pc = "post_verify"
    /\ IF candidate_ids = <<>>
       THEN /\ results' = <<>>
            /\ pc' = "done"
            /\ UNCHANGED <<sql_log, rows>>
       ELSE /\ sql_log' = Append(sql_log, "select_raw")
            /\ LET hit == Range(candidate_ids) \cap DOMAIN raw_table
               IN  \E order \in [1..Cardinality(hit) -> hit] :
                      /\ Range(order) = hit
                      /\ rows' = [a \in 1..Cardinality(hit) |->
                                     [id |-> order[a], vector |-> raw_table[order[a]]]]
            /\ pc' = "rerank"
            /\ UNCHANGED results
    /\ UNCHANGED <<error, codebook, codecVars, queryVars, scoreVars>>
    /\ UNCHANGED trainVars
    /\ UNCHANGED pipelineVars

\* post_verify lines 176-203
Rerank ==
    /\ pc = "rerank"
    /\ results' = RankedResults(query_vec, rows, final_k)
    /\ pc' = "done"
    /\ UNCHANGED <<error, codebook, codecVars, queryVars, scoreVars, sql_log, rows>>
    /\ UNCHANGED trainVars
    /\ UNCHANGED pipelineVars

(***************************************************************************)
(* Inputs of the query specifications                                      *)
(***************************************************************************)
QueryShapes ==
    {s \in (1..MaxQueryCells) \X (1..8) \X (1..MaxQueryCells) :
        s[1] * Pow2(s[2]) * s[3] <= MaxQueryCells}

Codebooks(s) == [1..s[1] -> [1..Pow2(s[2]) -> [1..s[3] -> Coords]]]

Vectors(len) == [1..len -> Coords]

\* code stores of n rows for shape s: ids are the SERIAL ids 1..n
CodeStores(s, n) ==
    {[a \in 1..n |-> [id |-> a, code_vector |-> cs[a]]] :
        cs \in [1..n -> [1..s[1] -> 0..(Pow2(s[2]) - 1)]]}

\* raw stores holding vectors of length len for some of the ids 1..n
RawStores(len, n) == UNION {[present -> Vectors(len)] : present \in SUBSET (1..n)}

NoCodec ==
    /\ vectors = <<>>
    /\ assign = <<>>
    /\ codes_packed = <<>>
    /\ codes = <<>>

NoScoring ==
    /\ NoTraining
    /\ error = "none"
    /\ sql_log = <<>>
    /\ dist_table = <<>>
    /\ rows = <<>>
    /\ ids = <<>>
    /\ scores = <<>>
    /\ approx_dists = <<>>
    /\ results = <<>>

(***************************************************************************)
(* Distance-table specification: _build_distance_table on its own          *)
(***************************************************************************)
InitTable ==
    /\ pc = "build_table"
    /\ entry = "_build_distance_table"
    /\ \E s \in EncodeShapes :
          /\ m = s[1]
          /\ nbits = s[2]
          /\ codebook \in Codebooks(s)
          /\ \E len \in 0..(s[1] * s[3] + 1) : query_vec \in Vectors(len)
    /\ top_n = 0
    /\ final_k = 0
    /\ pq_table = <<>>
    /\ raw_table = <<>>
    /\ candidate_ids = <<>>
    /\ NoCodec
    /\ NoScoring

NextTable == BuildTable

SpecTable == InitTable /\ [][NextTable]_vars

(***************************************************************************)
(* Scorer specification: pq_search on its own                              *)
(***************************************************************************)
InitScorer ==
    /\ pc = "build_table"
    /\ entry = "pq_search"
    /\ \E s \in QueryShapes :
          /\ m = s[1]
          /\ nbits = s[2]
          /\ codebook \in Codebooks(s)
          /\ \E len \in (s[1] * s[3] - 1)..(s[1] * s[3] + 1) : query_vec \in Vectors(len)
          /\ \E n \in 0..MaxCorpus : pq_table \in CodeStores(s, n)
    /\ top_n \in 0..MaxBudget
    /\ final_k = 0
    /\ raw_table = <<>>
    /\ candidate_ids = <<>>
    /\ NoCodec
    /\ NoScoring

NextScorer == BuildTable \/ FetchCodes \/ Score \/ TopN

SpecScorer == InitScorer /\ [][NextScorer]_vars

(***************************************************************************)
(* Re-ranker specification: post_verify on its own                         *)
(***************************************************************************)
QueryDims == {s[1] * s[3] : s \in QueryShapes}

\* candidate lists: distinct ids, in any order
CandidateLists ==
    UNION {{c \in [1..len -> 1..MaxCorpus] :
               \A a, b \in 1..len : a # b => c[a] # c[b]} : len \in 0..MaxCorpus}

InitRerank ==
    /\ pc = "post_verify"
    /\ entry = "post_verify"
    /\ \E len \in QueryDims :
          /\ query_vec \in Vectors(len)
          /\ raw_table \in RawStores(len, MaxCorpus)
    /\ candidate_ids \in CandidateLists
    /\ final_k \in 0..MaxBudget
    /\ top_n = 0
    /\ m = 0
    /\ nbits = 0
    /\ codebook = <<>>
    /\ pq_table = <<>>
    /\ NoCodec
    /\ NoScoring

NextRerank == FetchRaw \/ Rerank

SpecRerank == InitRerank /\ [][NextRerank]_vars

(***************************************************************************)
(* Search specification: search_pq_with_post_verification                  *)
(***************************************************************************)
SearchShapes ==
    {s \in (1..MaxSearchCells) \X (1..8) \X (1..MaxSearchCells) :
        s[1] * Pow2(s[2]) * s[3] <= MaxSearchCells}

InitSearch ==
    /\ pc = "build_table"
    /\ entry = "search_pq_with_post_verification"
    /\ \E s \in SearchShapes :
          /\ m = s[1]
          /\ nbits = s[2]
          /\ codebook \in Codebooks(s)
          /\ \E len \in (s[1] * s[3] - 1)..(s[1] * s[3] + 1) : query_vec \in Vectors(len)
          /\ \E n \in 0..MaxCorpus :
                /\ pq_table \in CodeStores(s, n)
                /\ raw_table \in RawStores(s[1] * s[3], n)
    /\ top_n \in 0..MaxBudget
    /\ final_k \in 0..MaxBudget
    /\ candidate_ids = <<>>
    /\ NoCodec
    /\ NoScoring

NextSearch == BuildTable \/ FetchCodes \/ Score \/ TopN \/ FetchRaw \/ Rerank

SpecSearch == InitSearch /\ [][NextSearch]_vars

(***************************************************************************)
(* Properties                                                              *)
(***************************************************************************)
\* sum over the subspaces of the table entries a code selects
LookupSum(code_vector) ==
    SumSeq([j \in 1..Len(dist_table) |-> dist_table[j][code_vector[j] + 1]])

\* the stored code rows carrying identifier i
StoredWithId(i) == {a \in 1..Len(pq_table) : pq_table[a].id = i}

\* C4: for a query of length M*Dsub, the table has shape [M][K] and entry (j, c)
\* is the squared Euclidean distance between coordinates j*Dsub .. (j+1)*Dsub-1
\* of the query and centroid c of subspace j; it is 0 when they coincide.
C4_TableEntries ==
    (pc = "done" /\ entry = "_build_distance_table") =>
        LET d_sub == ShapeDsub(codebook)
        IN  /\ Len(dist_table) = ShapeM(codebook)
            /\ \A j \in 1..ShapeM(codebook) :
                  /\ Len(dist_table[j]) = ShapeK(codebook)
                  /\ \A c \in 1..ShapeK(codebook) :
                        LET slice == [t \in 1..d_sub |-> query_vec[(j - 1) * d_sub + t]]
                        IN  /\ dist_table[j][c] = SqDist(slice, codebook[j][c])
                            /\ slice = codebook[j][c] => dist_table[j][c] = 0

\* the second slice of the query equals a centroid the first slice differs from
C4_Witness ==
    /\ pc = "done"
    /\ entry = "_build_distance_table"
    /\ ShapeM(codebook) = 2
    /\ ShapeDsub(codebook) = 2
    /\ codebook[1][2] = codebook[2][2]
    /\ <<query_vec[3], query_vec[4]>> = codebook[2][2]
    /\ <<query_vec[1], query_vec[2]>> # codebook[2][2]
    /\ dist_table[2][2] = 0
    /\ dist_table[1][2] > 0

\* C10: a query whose length differs from M*Dsub makes _build_distance_table
\* fail without a table, and pq_search fails with it before any code is
\* fetched or scored.
C10_DimMismatchFails ==
    (pc # "build_table" /\ Len(query_vec) # ShapeM(codebook) * ShapeDsub(codebook)) =>
        /\ pc = "failed"
        /\ error = "AssertionError"
        /\ dist_table = <<>>
        /\ sql_log = <<>>
        /\ rows = <<>>
        /\ scores = <<>>
        /\ candidate_ids = <<>>

\* pq_search has failed on a query one coordinate too long, the store not empty
C10_Witness ==
    /\ pc = "failed"
    /\ entry = "pq_search"
    /\ Len(query_vec) = ShapeM(codebook) * ShapeDsub(codebook) + 1
    /\ Len(pq_table) > 0
    /\ sql_log = <<>>

\* C5: the score pq_search assigns to a stored code is the sum over subspaces
\* j of dist_table[j][code[j]], and it stays paired with that entry's id, in
\* the scores array and in the returned candidate list.
C5_ScoreIsLookupSum ==
    /\ pc \in {"top_n", "done"} /\ entry = "pq_search" =>
          /\ Len(ids) = Len(pq_table)
          /\ Len(scores) = Len(pq_table)
          /\ \A idx \in 1..Len(pq_table) :
                \E a \in StoredWithId(ids[idx]) :
                    scores[idx] = LookupSum(pq_table[a].code_vector)
    /\ pc = "done" /\ entry = "pq_search" =>
          /\ Len(approx_dists) = Len(candidate_ids)
          /\ \A k \in 1..Len(candidate_ids) :
                \E a \in StoredWithId(candidate_ids[k]) :
                    approx_dists[k] = LookupSum(pq_table[a].code_vector)

\* a two-subspace code whose score adds two different non-zero table entries
C5_Witness ==
    /\ pc = "done"
    /\ entry = "pq_search"
    /\ ShapeM(codebook) = 2
    /\ Len(candidate_ids) = 2
    /\ dist_table[1][1] = 1
    /\ dist_table[2][2] = 1
    /\ dist_table[2][1] = 0
    /\ pq_table[candidate_ids[2]].code_vector = <<0, 1>>
    /\ approx_dists[2] = 2

\* C2: pq_search returns min(top_n, corpus size) distinct stored entries in
\* ascending score order, no entry left out scores below a returned one, and
\* with corpus size <= top_n every entry is returned.
C2_TopNLowest ==
    (pc = "done" /\ entry = "pq_search") =>
        LET n == Len(pq_table)
            returned == Range(candidate_ids)
        IN  /\ Len(candidate_ids) = Min(top_n, n)
            /\ Len(approx_dists) = Len(candidate_ids)
            /\ \A a, b \in 1..Len(candidate_ids) :
                  /\ a # b => candidate_ids[a] # candidate_ids[b]
                  /\ a < b => approx_dists[a] <= approx_dists[b]
            /\ \A k \in 1..Len(candidate_ids) :
                  \E a \in 1..n : /\ pq_table[a].id = candidate_ids[k]
                                  /\ LookupSum(pq_table[a].code_vector) = approx_dists[k]
            /\ \A a \in 1..n :
                  pq_table[a].id \notin returned =>
                      \A k \in 1..Len(candidate_ids) :
                          LookupSum(pq_table[a].code_vector) >= approx_dists[k]
            /\ n <= top_n => returned = {pq_table[a].id : a \in 1..n}

\* two of three entries returned in strictly ascending order, the third
\* scoring strictly above both
C2_Witness ==
    /\ pc = "done"
    /\ entry = "pq_search"
    /\ Len(pq_table) = 3
    /\ top_n = 2
    /\ Len(candidate_ids) = 2
    /\ approx_dists[1] < approx_dists[2]
    /\ \E a \in 1..3 : /\ pq_table[a].id \notin Range(candidate_ids)
                       /\ LookupSum(pq_table[a].code_vector) > approx_dists[2]

\* exact squared Euclidean distance between the query and the raw vector of id i
ExactDistance(i) ==
    SumSeq([t \in 1..Len(query_vec) |->
               (query_vec[t] - raw_table[i][t]) * (query_vec[t] - raw_table[i][t])])

ResultIds == {results[a].id : a \in 1..Len(results)}

\* results are distinct candidates, each with its exact distance, ascending
ResultsRankCandidates ==
    /\ \A a \in 1..Len(results) :
          /\ results[a].id \in Range(candidate_ids) \cap DOMAIN raw_table
          /\ results[a].distance = ExactDistance(results[a].id)
    /\ \A a, b \in 1..Len(results) :
          /\ a # b => results[a].id # results[b].id
          /\ a < b => results[a].distance <= results[b].distance

\* C3: for a non-empty candidate list whose ids all exist in the raw store,
\* post_verify returns min(final_k, number of candidates) of the candidates,
\* each with its exact squared distance, ascending, and no candidate left out
\* is nearer than a returned one.
C3_PostVerifyTopK ==
    (/\ pc = "done"
     /\ entry = "post_verify"
     /\ candidate_ids # <<>>
     /\ Range(candidate_ids) \subseteq DOMAIN raw_table) =>
        /\ Len(results) = Min(final_k, Len(candidate_ids))
        /\ ResultsRankCandidates
        /\ \A i \in Range(candidate_ids) \ ResultIds :
              \A a \in 1..Len(results) : ExactDistance(i) >= results[a].distance
        /\ Len(candidate_ids) < final_k => ResultIds = Range(candidate_ids)

\* three candidates listed farthest first, the two nearest returned in order
C3_Witness ==
    /\ pc = "done"
    /\ entry = "post_verify"
    /\ Len(candidate_ids) = 3
    /\ Range(candidate_ids) \subseteq DOMAIN raw_table
    /\ final_k = 2
    /\ Len(results) = 2
    /\ results[1].distance < results[2].distance
    /\ ExactDistance(candidate_ids[1]) > results[2].distance
    /\ results[1].id = candidate_ids[3]

\* C7: with an empty code store a well-dimensioned search ends with an empty
\* result list and no error, whatever top_n and final_k; and post_verify on
\* an empty candidate list returns an empty list without querying the raw store.
C7_EmptyIsEmpty ==
    /\ (/\ entry = "search_pq_with_post_verification"
        /\ pq_table = <<>>
        /\ QueryDimMatches(query_vec, codebook)) =>
            /\ error = "none"
            /\ pc \in {"build_table", "fetch_codes", "score", "top_n", "post_verify", "done"}
            /\ results = <<>>
    /\ (pc \in {"rerank", "done"} /\ candidate_ids = <<>>) =>
            /\ pc = "done"
            /\ results = <<>>
            /\ \A a \in 1..Len(sql_log) : sql_log[a] # "select_raw"

\* a search over an empty code store, with raw rows present, has returned
C7_Witness ==
    /\ pc = "done"
    /\ entry = "search_pq_with_post_verification"
    /\ pq_table = <<>>
    /\ top_n > 0
    /\ final_k > 0
    /\ sql_log = <<"select_codes">>
    /\ results = <<>>

\* C8: with final_k > top_n the search returns at most top_n results, all of
\* them phase-1 candidates in ascending exact distance; when every candidate
\* has a raw row it returns all min(top_n, corpus size) candidates.
C8_FinalKAboveTopN ==
    (/\ pc = "done"
     /\ entry = "search_pq_with_post_verification"
     /\ final_k > top_n) =>
        /\ Len(results) <= top_n
        /\ ResultsRankCandidates
        /\ Range(candidate_ids) \subseteq DOMAIN raw_table =>
              /\ Len(results) = Min(top_n, Len(pq_table))
              /\ ResultIds = Range(candidate_ids)

\* final_k = 2 > top_n = 1 over two items: one result comes back
C8_Witness ==
    /\ pc = "done"
    /\ entry = "search_pq_with_post_verification"
    /\ Len(pq_table) = 2
    /\ DOMAIN raw_table = {1, 2}
    /\ top_n = 1
    /\ final_k = 2
    /\ Len(results) = 1

(***************************************************************************)
(* pq_trainer.py: train_pq                                                 *)
(*                                                                         *)
(* A training point is a record: src is the row of vectors it was taken    *)
(* from, noise tells what line 65 added to it ("none" for an original row, *)
(* "zero" when the noise scale is 0, "scaled" otherwise).  The centroids   *)
(* k-means computes inside pq.train are not modelled.                      *)
(***************************************************************************)
\* line 45: dim % m_subspaces == 0
DivisibleSwapped(d, mm) == mm % d = 0

Divisible(d, mm) == d % mm = 0

\* int(np.ceil(a / b)) for positive b
CeilDiv(a, b) == (a + b - 1) \div b

\* np.std(train_vecs) == 0: every coordinate of every training vector is the same
ZeroSpread(tv, vs) ==
    \A a, b \in 1..Len(tv) : \A t, u \in 1..Len(vs[tv[a].src]) :
        vs[tv[a].src][t] = vs[tv[b].src][u]

\* lines 61-66: np.tile(train_vecs, (reps, 1))[:k] plus noise
AugmentedRepeat(tv, vs, k) ==
    LET nt    == Len(tv)
        reps  == CeilDiv(k, nt)
        tiled == [i \in 1..(reps * nt) |-> tv[((i - 1) \div reps) + 1]]
        kind  == IF ZeroSpread(tv, vs) THEN "zero" ELSE "scaled"
    IN  [i \in 1..Min(k, reps * nt) |-> [src |-> tiled[i].src, noise |-> kind]]

Augmented(tv, vs, k) ==
    LET nt    == Len(tv)
        reps  == CeilDiv(k, nt)
        tiled == [i \in 1..(reps * nt) |-> tv[((i - 1) % nt) + 1]]
        kind  == IF ZeroSpread(tv, vs) THEN "zero" ELSE "scaled"
    IN  [i \in 1..Min(k, reps * nt) |-> [src |-> tiled[i].src, noise |-> kind]]

\* lines 45-47
CheckDim ==
    /\ pc = "check_dim"
    /\ IF Divisible(dim, m_subspaces)
       THEN /\ pc' = "select"
            /\ UNCHANGED error
       ELSE /\ error' = "AssertionError"
            /\ pc' = "failed"
    /\ UNCHANGED <<dim, m_subspaces, train_size, train_vecs, log_out, pq>>
    /\ UNCHANGED <<codebook, codecVars, queryVars, scoreVars, sql_log, rows, results>>
    /\ UNCHANGED pipelineVars

\* lines 49-50: train_vecs = vectors[:train_size] if train_size else vectors
SelectTraining ==
    /\ pc = "select"
    /\ train_vecs' =
          LET all == [i \in 1..Len(vectors) |-> [src |-> i, noise |-> "none"]]
          IN  IF train_size # 0 THEN SliceTo(all, train_size) ELSE all
    /\ pc' = "augment"
    /\ UNCHANGED <<dim, m_subspaces, train_size, log_out, pq>>
    /\ UNCHANGED <<error, codebook, codecVars, queryVars, scoreVars, sql_log, rows, results>>
    /\ UNCHANGED pipelineVars

\* lines 54-66
Augment ==
    /\ pc = "augment"
    /\ LET k == Pow2(nbits)
       IN  IF Len(train_vecs) < k
           THEN /\ log_out' = Append(log_out, "WARNING")
                /\ IF Len(train_vecs) = 0
                   THEN /\ error' = "ZeroDivisionError"
                        /\ pc' = "failed"
                        /\ UNCHANGED train_vecs
                   ELSE /\ train_vecs' = Augmented(train_vecs, vectors, k)
                        /\ pc' = "train"
                        /\ UNCHANGED error
           ELSE /\ pc' = "train"
                /\ UNCHANGED <<log_out, train_vecs, error>>
    /\ UNCHANGED <<dim, m_subspaces, train_size, pq>>
    /\ UNCHANGED <<codebook, codecVars, queryVars, scoreVars, sql_log, rows, results>>
    /\ UNCHANGED pipelineVars

\* lines 68-78
Train ==
    /\ pc = "train"
    /\ log_out' = log_out \o <<"INFO", "INFO">>
    /\ pq' = [d |-> dim, M |-> m_subspaces, nbits |-> nbits,
              dsub |-> dim \div m_subspaces, ntrain |-> Len(train_vecs)]
    /\ pc' = "trained"
    /\ UNCHANGED <<dim, m_subspaces, train_size, train_vecs>>
    /\ UNCHANGED <<error, codebook, codecVars, queryVars, scoreVars, sql_log, rows, results>>
    /\ UNCHANGED pipelineVars

InitTrain ==
    /\ pc = "check_dim"
    /\ entry = "train_pq"
    /\ dim \in 1..MaxTrainDim
    /\ m_subspaces \in 1..MaxTrainDim
    /\ nbits \in 1..MaxTrainBits
    /\ \E n \in 0..MaxTrain : vectors \in [1..n -> Vectors(dim)]
    /\ train_size \in 0..MaxTrain
    /\ train_vecs = "unset"
    /\ log_out = <<>>
    /\ pq = "none"
    /\ NoPipeline
    /\ m = 0
    /\ codebook = <<>>
    /\ assign = <<>>
    /\ codes_packed = <<>>
    /\ codes = <<>>
    /\ error = "none"
    /\ query_vec = <<>>
    /\ top_n = 0
    /\ final_k = 0
    /\ pq_table = <<>>
    /\ raw_table = <<>>
    /\ sql_log = <<>>
    /\ dist_table = <<>>
    /\ rows = <<>>
    /\ ids = <<>>
    /\ scores = <<>>
    /\ candidate_ids = <<>>
    /\ approx_dists = <<>>
    /\ results = <<>>

NextTrain == CheckDim \/ SelectTraining \/ Augment \/ Train

SpecTrain == InitTrain /\ [][NextTrain]_vars

\* C9: when dim % m_subspaces # 0, train_pq fails at once: the training set
\* has not been read or augmented, nothing is logged or clustered, and no
\* quantizer is returned.
C9_IndivisibleDimFails ==
    (pc # "check_dim" /\ dim % m_subspaces # 0) =>
        /\ pc = "failed"
        /\ error = "AssertionError"
        /\ train_vecs = "unset"
        /\ log_out = <<>>
        /\ pq = "none"

\* train_pq has failed on dim = 3, m_subspaces = 2 with vectors to train on
C9_Witness ==
    /\ pc = "failed"
    /\ error = "AssertionError"
    /\ dim = 3
    /\ m_subspaces = 2
    /\ Len(vectors) = 2
    /\ pq = "none"

(***************************************************************************)
(* Candidates without a raw row (post_verify lines 159-197)                *)
(***************************************************************************)
\* candidates of phase 1 for which the raw store holds no row
MissingCandidates == Range(candidate_ids) \ DOMAIN raw_table

\* C11: when the raw store has no row for some phase-1 candidate, the search
\* does not return a result list: it ends in failure, never in "done" with
\* results ranked from the candidates that are left.
C11_MissingRowFailsQuery ==
    (/\ entry = "search_pq_with_post_verification"
     /\ pc \in {"rerank", "done", "failed"}
     /\ MissingCandidates # {}) =>
        /\ pc # "done"
        /\ results = <<>>

\* the search returned a ranked list although a candidate had no raw row
C11_DroppedSilently ==
    /\ entry = "search_pq_with_post_verification"
    /\ pc = "done"
    /\ error = "none"
    /\ MissingCandidates # {}
    /\ results # <<>>

(***************************************************************************)
(* Search with a failing store: cur.execute / cur.fetchall may raise       *)
(* (connection loss, fetch failure).  Neither pq_search nor post_verify    *)
(* nor search_pq_with_post_verification catches anything, so the exception *)
(* leaves the call and nothing is returned.                                *)
(***************************************************************************)
\* pq_search lines 93-94 raise
FetchCodesFails ==
    /\ pc = "fetch_codes"
    /\ sql_log' = Append(sql_log, "select_codes")
    /\ error' = "OperationalError"
    /\ pc' = "failed"
    /\ UNCHANGED <<codebook, codecVars, queryVars, scoreVars, rows, results>>
    /\ UNCHANGED trainVars
    /\ UNCHANGED pipelineVars

\* post_verify lines 168-169 raise, after some of the rows were read
FetchRawFailsSwallowed ==
    /\ pc = "post_verify"
    /\ candidate_ids # <<>>
    /\ sql_log' = Append(sql_log, "select_raw")
    /\ error' = "OperationalError"
    /\ \E hit \in SUBSET (Range(candidate_ids) \cap DOMAIN raw_table) :
       \E order \in [1..Cardinality(hit) -> hit] :
          /\ Range(order) = hit
          /\ rows' = [a \in 1..Cardinality(hit) |->
                         [id |-> order[a], vector |-> raw_table[order[a]]]]
    /\ pc' = "rerank"
    /\ UNCHANGED <<codebook, codecVars, queryVars, scoreVars, results>>
    /\ UNCHANGED trainVars
    /\ UNCHANGED pipelineVars

FetchRawFails ==
    /\ pc = "post_verify"
    /\ candidate_ids # <<>>
    /\ sql_log' = Append(sql_log, "select_raw")
    /\ error' = "OperationalError"
    /\ pc' = "failed"
    /\ UNCHANGED <<codebook, codecVars, queryVars, scoreVars, rows, results>>
    /\ UNCHANGED trainVars
    /\ UNCHANGED pipelineVars

NextFaulty == NextSearch \/ FetchCodesFails \/ FetchRawFails

SpecFaulty == InitSearch /\ [][NextFaulty]_vars

\* C12: a search fails as a unit or completes both phases.  Once pq_search or
\* post_verify has raised, the search is over and has returned nothing; a
\* result list exists only after a run in which nothing was raised, phase 1
\* read the code store, phase 2 (when there are candidates) read the raw
\* store, and every fetched candidate was ranked up to final_k.
C12_AllOrNothing ==
    entry = "search_pq_with_post_verification" =>
        /\ error # "none" => (pc = "failed" /\ results = <<>>)
        /\ pc = "failed" => error # "none"
        /\ results # <<>> => pc = "done"
        /\ pc = "done" =>
              /\ error = "none"
              /\ IF candidate_ids = <<>>
                 THEN sql_log = <<"select_codes">> /\ results = <<>>
                 ELSE /\ sql_log = <<"select_codes", "select_raw">>
                      /\ ResultsRankCandidates
                      /\ Len(results) =
                            Min(final_k,
                                Cardinality(Range(candidate_ids) \cap DOMAIN raw_table))

\* the raw-store fetch of phase 2 raised after phase 1 had chosen two candidates
C12_Witness ==
    /\ entry = "search_pq_with_post_verification"
    /\ pc = "failed"
    /\ error = "OperationalError"
    /\ sql_log = <<"select_codes", "select_raw">>
    /\ Len(candidate_ids) = 2
    /\ final_k > 0
    /\ results = <<>>

\* number of vectors line 49-50 selects for training
TrainCount == IF train_size # 0 THEN Min(train_size, Len(vectors)) ELSE Len(vectors)

\* the training set after line 66: a warning was logged and training point i
\* (0-based) is vector i mod nt with noise of the set's own scale added
CyclicallyAugmented(nt) ==
    /\ "WARNING" \in Range(log_out)
    /\ Len(train_vecs) >= Pow2(nbits)
    /\ \A i \in 1..Len(train_vecs) :
          /\ train_vecs[i].src = ((i - 1) % nt) + 1
          /\ train_vecs[i].noise \in {"zero", "scaled"}

\* C18 as stated: whenever fewer than K = 2^nbits vectors are selected for
\* training (and dim is a multiple of m_subspaces), train_pq does not fail:
\* it logs a warning, trains on at least K cyclically replicated, perturbed
\* points and returns a quantizer.
C18_ScarceNeverFails ==
    (/\ entry = "train_pq"
     /\ Divisible(dim, m_subspaces)
     /\ TrainCount < Pow2(nbits)
     /\ pc \in {"train", "trained", "failed"}) =>
        /\ pc # "failed"
        /\ CyclicallyAugmented(TrainCount)
        /\ pc = "trained" => (pq.nbits = nbits /\ pq.ntrain >= Pow2(nbits))

\* C18, amended: the same whenever at least one and fewer than K vectors are
\* selected for training.
C18_ScarceNonEmptyTrains ==
    (/\ entry = "train_pq"
     /\ Divisible(dim, m_subspaces)
     /\ TrainCount >= 1
     /\ TrainCount < Pow2(nbits)
     /\ pc \in {"train", "trained", "failed"}) =>
        /\ pc # "failed"
        /\ error = "none"
        /\ CyclicallyAugmented(TrainCount)
        /\ pc = "trained" => (pq.nbits = nbits /\ pq.ntrain >= Pow2(nbits))

\* a quantizer with K = 4 was trained from three selected vectors of unequal
\* coordinates: the fourth training point is a perturbed copy of the first
C18_Witness ==
    /\ entry = "train_pq"
    /\ pc = "trained"
    /\ nbits = 2
    /\ TrainCount = 3
    /\ Len(train_vecs) = 4
    /\ train_vecs[4] = [src |-> 1, noise |-> "scaled"]
    /\ pq.ntrain = 4

(***************************************************************************)
(* _decode_pq_codes, one loop iteration at a time, on arbitrary packed     *)
(* rows.  loop holds the locals i, j and bit_offset and, in read, the      *)
(* column indices of codes_packed read so far.                             *)
(***************************************************************************)
\* byte values of the packed rows: each bit alone set, each bit alone clear
ProbeBytes ==
    {0, 255} \cup {Pow2(b) : b \in 0..7} \cup {255 - Pow2(b) : b \in 0..7}

\* (n, m, nbits) with nbits below 8 and n rows of ceil(m * nbits / 8) bytes
DecodeShapes ==
    {s \in (1..MaxRows) \X (1..(8 * MaxPackedBytes)) \X (1..7) :
        s[1] * CodeSize(s[2], s[3]) <= MaxPackedBytes}

\* lines 123-127 and the first pass through lines 135-136
InitDecode ==
    /\ pc = "decode_loop"
    /\ entry = "_decode_pq_codes"
    /\ \E s \in DecodeShapes :
          /\ m = s[2]
          /\ nbits = s[3]
          /\ codes_packed \in [1..s[1] -> [1..CodeSize(s[2], s[3]) -> ProbeBytes]]
          /\ codes = [i \in 1..s[1] |-> [j \in 1..s[2] |-> 0]]
    /\ loop = [i |-> 0, j |-> 0, bit_offset |-> 0, read |-> {}]
    /\ codebook = <<>>
    /\ vectors = <<>>
    /\ assign = <<>>
    /\ TrainIdle
    /\ QueryIdle
    /\ NoFiles
    /\ NoIngest
    /\ NoOther

\* lines 139-153: the columns of codes_packed one iteration reads
FieldBytes(bit_offset, nb) ==
    LET byte_idx    == bit_offset \div 8
        bit_in_byte == bit_offset % 8
    IN  IF bit_in_byte + nb <= 8 THEN {byte_idx} ELSE {byte_idx, byte_idx + 1}

\* one iteration of lines 137-157, up to the head of the next iteration
DecodeStepNoRestart ==
    /\ pc = "decode_loop"
    /\ LET code == DecodeField(codes_packed[loop.i + 1], loop.bit_offset % (8 * Len(codes_packed[1])), nbits)
           last == loop.j + 1 = m
       IN  /\ codes' = [codes EXCEPT ![loop.i + 1][loop.j + 1] = code % 256]
           /\ loop' = [i          |-> IF last THEN loop.i + 1 ELSE loop.i,
                       j          |-> IF last THEN 0 ELSE loop.j + 1,
                       bit_offset |-> loop.bit_offset + nbits,
                       read       |-> loop.read \cup FieldBytes(loop.bit_offset, nbits)]
           /\ pc' = IF last /\ loop.i + 1 = Len(codes_packed)
                    THEN "decoded" ELSE "decode_loop"
    /\ UNCHANGED <<nbits, m, codebook, vectors, assign, codes_packed>>
    /\ UNCHANGED <<error, queryVars, scoreVars, sql_log, rows, results>>
    /\ UNCHANGED <<trainVars, fileVars, ingestVars, other>>

DecodeStep ==
    /\ pc = "decode_loop"
    /\ LET code == DecodeField(codes_packed[loop.i + 1], loop.bit_offset, nbits)
           last == loop.j + 1 = m
       IN  /\ codes' = [codes EXCEPT ![loop.i + 1][loop.j + 1] = code % 256]
           /\ loop' = [i          |-> IF last THEN loop.i + 1 ELSE loop.i,
                       j          |-> IF last THEN 0 ELSE loop.j + 1,
                       bit_offset |-> IF last THEN 0 ELSE loop.bit_offset + nbits,
                       read       |-> loop.read \cup FieldBytes(loop.bit_offset, nbits)]
           /\ pc' = IF last /\ loop.i + 1 = Len(codes_packed)
                    THEN "decoded" ELSE "decode_loop"
    /\ UNCHANGED <<nbits, m, codebook, vectors, assign, codes_packed>>
    /\ UNCHANGED <<error, queryVars, scoreVars, sql_log, rows, results>>
    /\ UNCHANGED <<trainVars, fileVars, ingestVars, other>>

NextDecode == DecodeStep

SpecDecode == InitDecode /\ [][NextDecode]_vars

\* the integer whose bit b is bit (j * nbits + b) of the row, bytes in order,
\* least significant bit of each byte first
FieldValue(row, j) ==
    SumSeq([b \in 1..nbits |->
               Bit(row[((j * nbits + b - 1) \div 8) + 1], (j * nbits + b - 1) % 8)
                   * Pow2(b - 1)])

\* C19: for nbits in 1..7, the value decoded for subspace j of a packed row is
\* the integer formed by the bits at offsets j*nbits .. (j+1)*nbits - 1 of the
\* row, least significant first, also when they straddle two bytes; it lies in
\* 0 .. 2^nbits - 1; the bit offset is j*nbits in every row (it restarts at 0);
\* and no column at or beyond ceil(m * nbits / 8) is read.
C19_FieldExtraction ==
    entry = "_decode_pq_codes" =>
        /\ nbits \in 1..7
        /\ pc = "decode_loop" => loop.bit_offset = loop.j * nbits
        /\ \A i \in 0..(Len(codes_packed) - 1) : \A j \in 0..(m - 1) :
              (i < loop.i \/ (i = loop.i /\ j < loop.j)) =>
                 /\ codes[i + 1][j + 1] = FieldValue(codes_packed[i + 1], j)
                 /\ codes[i + 1][j + 1] \in 0..(Pow2(nbits) - 1)
        /\ \A b \in loop.read : b >= 0 /\ b < CodeSize(m, nbits)

\* three 3-bit fields in two bytes: the third takes bits 6, 7 of the first
\* byte and bit 0 of the second
C19_Witness ==
    /\ entry = "_decode_pq_codes"
    /\ pc = "decoded"
    /\ nbits = 3
    /\ m = 3
    /\ codes_packed = <<<<128, 1>>>>
    /\ codes = <<<<0, 0, 6>>>>
    /\ loop.read = {0, 1}

(***************************************************************************)
(* Codebook artifact: save_codebook / load_codebook (pq_trainer.py lines   *)
(* 187-201).  A file is the sequence of pickled objects it holds; the      *)
(* pickle of an array is its shape and its values in row-major order.      *)
(***************************************************************************)
Paths == {"codebook.pkl", "other.pkl"}

\* codebook.ravel(): entry (j, c, x), 0-based, is at position (j * K + c) * Dsub + x
Ravel(cb) ==
    LET kk == ShapeK(cb)
        dd == ShapeDsub(cb)
    IN  [t \in 1..(ShapeM(cb) * kk * dd) |->
            cb[((t - 1) \div (kk * dd)) + 1][(((t - 1) \div dd) % kk) + 1][((t - 1) % dd) + 1]]

\* flat.reshape(shape)
Reshape(flat, shape) ==
    [j \in 1..shape[1] |-> [c \in 1..shape[2] |-> [x \in 1..shape[3] |->
        flat[((j - 1) * shape[2] + (c - 1)) * shape[3] + x]]]]

\* pickle.dump / pickle.load of a numpy array
Pickled(cb) ==
    [shape |-> <<ShapeM(cb), ShapeK(cb), ShapeDsub(cb)>>, data |-> Ravel(cb)]

Unpickled(obj) == Reshape(obj.data, obj.shape)

\* os.path.isfile
IsFile(fs, path) == path \in DOMAIN fs

\* lines 189-190: open(filepath, "wb") truncates, pickle.dump writes one object
WrittenAppending(fs, path, cb) ==
    [f \in DOMAIN fs \cup {path} |->
        IF f # path THEN fs[f]
        ELSE IF IsFile(fs, path) THEN Append(fs[f], Pickled(cb))
        ELSE <<Pickled(cb)>>]

Written(fs, path, cb) ==
    [f \in DOMAIN fs \cup {path} |->
        IF f = path THEN <<Pickled(cb)>> ELSE fs[f]]

\* lines 198-199: pickle.load reads the first object of the file
Loaded(fs, path) == Unpickled(Head(fs[path]))

SavedShapes ==
    {s \in (1..MaxSavedCells) \X (1..2) \X (1..MaxSavedCells) :
        s[1] * Pow2(s[2]) * s[3] <= MaxSavedCells}

\* save_codebook(codebook, filepath, logger), for any codebook and path
SaveCodebook ==
    /\ pc = "files"
    /\ entry = "load_codebook"
    /\ Len(saves) < MaxSaves
    /\ \E s \in SavedShapes : \E cb \in Codebooks(s) : \E path \in Paths :
          /\ files' = Written(files, path, cb)
          /\ saves' = Append(saves, [filepath |-> path, codebook |-> cb])
    /\ UNCHANGED <<pc, error, codebook, codecVars, queryVars, scoreVars>>
    /\ UNCHANGED <<sql_log, rows, results, trainVars, loop, other, filepath, ingestVars>>

\* load_codebook(filepath, logger), for any path: codebook takes the value
\* returned, and keeps its old value when the call raises
LoadCodebook ==
    /\ pc = "files"
    /\ entry = "load_codebook"
    /\ filepath' \in Paths
    /\ IF ~IsFile(files, filepath')
       THEN /\ error' = "FileNotFoundError"
            /\ pc' = "failed"
            /\ UNCHANGED codebook
       ELSE /\ codebook' = Loaded(files, filepath')
            /\ pc' = "loaded"
            /\ UNCHANGED error
    /\ UNCHANGED <<codecVars, queryVars, scoreVars>>
    /\ UNCHANGED <<sql_log, rows, results, trainVars, loop, other, files, saves, ingestVars>>

InitArtifact ==
    /\ pc = "files"
    /\ entry = "load_codebook"
    /\ NoFiles
    /\ NoDecodeLoop
    /\ NoIngest
    /\ NoOther
    /\ m = 0
    /\ nbits = 0
    /\ codebook = <<>>
    /\ NoCodec
    /\ TrainIdle
    /\ QueryIdle

NextArtifact == SaveCodebook \/ LoadCodebook

SpecArtifact == InitArtifact /\ [][NextArtifact]_vars

\* positions of the save_codebook calls that wrote to path
SavesTo(path) == {a \in 1..Len(saves) : saves[a].filepath = path}

\* the codebook handed to the latest save_codebook call for path
LastSaved(path) ==
    saves[CHOOSE a \in SavesTo(path) : \A b \in SavesTo(path) : b <= a].codebook

\* C16: a codebook loaded from a path equals the codebook most recently saved
\* to that path: same M, K and Dsub and the same centroid values.
C16_SaveLoadRoundTrip ==
    (entry = "load_codebook" /\ pc = "loaded") =>
        /\ SavesTo(filepath) # {}
        /\ codebook = LastSaved(filepath)
        /\ ShapeM(codebook) = ShapeM(LastSaved(filepath))
        /\ ShapeK(codebook) = ShapeK(LastSaved(filepath))
        /\ ShapeDsub(codebook) = ShapeDsub(LastSaved(filepath))

\* a [2][2][1] codebook was saved over a [1][2][2] one of other values at the
\* same path, and then loaded
C16_Witness ==
    /\ entry = "load_codebook"
    /\ pc = "loaded"
    /\ Len(saves) = 2
    /\ saves[1].filepath = filepath
    /\ saves[2].filepath = filepath
    /\ ShapeM(saves[1].codebook) = 1
    /\ ShapeDsub(saves[1].codebook) = 2
    /\ codebook = <<<<<<0>>, <<1>>>>, <<<<1>>, <<0>>>>>>
    /\ Ravel(saves[1].codebook) # Ravel(codebook)

(***************************************************************************)
(* main.py: run_ingest, followed by run_search                             *)
(*                                                                         *)
(* A configuration key holds "unset" when the file has no such key.  Rows  *)
(* are inserted one at a time; batching and commits are not modelled here. *)
(* The centroids k-means computed are drawn when extract_codebook first    *)
(* reads them.                                                             *)
(***************************************************************************)
\* index_config.get(key, default)
ConfigGet(key, default) == IF config[key] = "unset" THEN default ELSE config[key]

\* (dim, m_subspaces, nbits) of an ingest
IngestShapes ==
    {s \in (1..MaxIngestCells) \X (1..MaxIngestCells) \X (1..2) :
        /\ Divisible(s[1], s[2])
        /\ s[2] * Pow2(s[3]) * (s[1] \div s[2]) <= MaxIngestCells}

\* shape of the codebook the configuration asks for
IngestShape == <<m_subspaces, nbits, dim \div m_subspaces>>

CodebookShape == <<m_subspaces, Pow2(nbits), dim \div m_subspaces>>

\* file systems holding, at some of the paths, one pickled codebook of shape s
FileSystems(s) ==
    UNION {[present -> {<<Pickled(cb)>> : cb \in Codebooks(s)}] :
              present \in SUBSET Paths}

\* lines 98-99: init_tables drops and re-creates the three tables
InitTables ==
    /\ pc = "init_tables"
    /\ raw_table' = <<>>
    /\ pq_table' = <<>>
    /\ centroid_table' = <<>>
    /\ pc' = "import_raw"
    /\ UNCHANGED <<error, codebook, codecVars, entry, query_vec, top_n, final_k>>
    /\ UNCHANGED <<scoreVars, sql_log, rows, results, trainVars, loop, other, fileVars>>
    /\ UNCHANGED <<config, db_ids, centroids>>

\* lines 110-113, import_raw_vectors: one INSERT ... RETURNING id per vector,
\* the table's SERIAL ids counting from 1; then on to step 4
ImportRawVector ==
    /\ pc = "import_raw"
    /\ IF Len(db_ids) < Len(vectors)
       THEN LET id == Len(db_ids) + 1
            IN  /\ raw_table' = [a \in DOMAIN raw_table \cup {id} |->
                                    IF a = id THEN vectors[id] ELSE raw_table[a]]
                /\ db_ids' = Append(db_ids, id)
                /\ UNCHANGED pc
       ELSE /\ pc' = "choose_codebook"
            /\ UNCHANGED <<raw_table, db_ids>>
    /\ UNCHANGED <<error, codebook, codecVars, entry, query_vec, top_n, final_k, pq_table>>
    /\ UNCHANGED <<scoreVars, sql_log, rows, results, trainVars, loop, other, fileVars>>
    /\ UNCHANGED <<config, centroid_table, centroids>>

\* lines 123-128: load the codebook when codebook_file names an existing
\* file, otherwise call train_pq
ChooseCodebook ==
    /\ pc = "choose_codebook"
    /\ LET codebook_file == ConfigGet("codebook_file", "")
       IN  IF codebook_file # "" /\ IsFile(files, codebook_file)
           THEN /\ codebook' = Loaded(files, codebook_file)
                /\ filepath' = codebook_file
                /\ pc' = "recreate"
           ELSE /\ pc' = "check_dim"
                /\ UNCHANGED <<codebook, filepath>>
    /\ UNCHANGED <<error, codecVars, queryVars, scoreVars, sql_log, rows, results>>
    /\ UNCHANGED <<trainVars, loop, other, files, saves, ingestVars>>

\* lines 129-134: extract_codebook reshapes pq.centroids; save_codebook when
\* export_codebook is set
ExtractCodebook ==
    /\ pc = "trained"
    /\ entry = "run_ingest"
    /\ \E trained \in Codebooks(IngestShape) :
          /\ centroids' = Ravel(trained)
          /\ codebook' = Reshape(centroids', CodebookShape)
    /\ LET export_cb == ConfigGet("export_codebook", "")
       IN  IF export_cb # ""
           THEN /\ files' = Written(files, export_cb, codebook')
                /\ saves' = Append(saves, [filepath |-> export_cb, codebook |-> codebook'])
           ELSE UNCHANGED <<files, saves>>
    /\ pc' = "recreate"
    /\ UNCHANGED <<error, codecVars, queryVars, scoreVars, sql_log, rows, results>>
    /\ UNCHANGED <<trainVars, loop, other, filepath, config, db_ids, centroid_table>>

\* lines 145-150: when codebook_file names an existing file, a new quantizer
\* gets the values of codebook as its centroids
RecreateQuantizer ==
    /\ pc = "recreate"
    /\ LET codebook_file == ConfigGet("codebook_file", "")
       IN  IF codebook_file # "" /\ IsFile(files, codebook_file)
           THEN /\ pq' = [d |-> dim, M |-> m_subspaces, nbits |-> nbits,
                          dsub |-> dim \div m_subspaces, ntrain |-> 0]
                /\ centroids' = Ravel(codebook)
           ELSE UNCHANGED <<pq, centroids>>
    /\ pc' = "encode"
    /\ UNCHANGED <<error, codebook, codecVars, queryVars, scoreVars, sql_log, rows, results>>
    /\ UNCHANGED <<dim, m_subspaces, train_size, train_vecs, log_out>>
    /\ UNCHANGED <<loop, other, fileVars, config, db_ids, centroid_table>>

\* line 152: codes = encode_vectors(pq, vectors)
EncodeVectors ==
    /\ pc = "encode"
    /\ assign' = AssignCodes(vectors, Reshape(centroids, CodebookShape))
    /\ codes_packed' = PackCodes(assign', nbits)
    /\ codes' = _decode_pq_codes(codes_packed', m_subspaces, nbits)
    /\ pc' = "import_codebook"
    /\ UNCHANGED <<error, codebook, nbits, m, vectors, queryVars, scoreVars>>
    /\ UNCHANGED <<sql_log, rows, results, trainVars, pipelineVars>>

\* line 165: import_codebook writes every centroid of codebook
ImportCodebookFromExport ==
    /\ pc = "import_codebook"
    /\ LET export_cb == ConfigGet("export_codebook", "")
       IN  centroid_table' = IF export_cb # "" /\ IsFile(files, export_cb)
                             THEN Loaded(files, export_cb) ELSE codebook
    /\ pc' = "import_codes"
    /\ UNCHANGED <<error, codebook, codecVars, queryVars, scoreVars, sql_log, rows, results>>
    /\ UNCHANGED <<trainVars, loop, other, fileVars, config, db_ids, centroids>>

ImportCodebook ==
    /\ pc = "import_codebook"
    /\ centroid_table' = codebook
    /\ pc' = "import_codes"
    /\ UNCHANGED <<error, codebook, codecVars, queryVars, scoreVars, sql_log, rows, results>>
    /\ UNCHANGED <<trainVars, loop, other, fileVars, config, db_ids, centroids>>

\* line 166, import_pq_codes: row i pairs db_ids[i] with codes[i]; after the
\* last row run_ingest creates the indexes and returns
ImportCodeReversed ==
    /\ pc = "import_codes"
    /\ IF Len(pq_table) < Len(db_ids)
       THEN LET i == Len(pq_table) + 1
            IN  /\ pq_table' = Append(pq_table, [id |-> db_ids[i],
                                                 code_vector |-> codes[Len(db_ids) + 1 - i]])
                /\ UNCHANGED pc
       ELSE /\ pc' = "ingested"
            /\ UNCHANGED pq_table
    /\ UNCHANGED <<error, codebook, codecVars, entry, query_vec, top_n, final_k, raw_table>>
    /\ UNCHANGED <<scoreVars, sql_log, rows, results, trainVars, pipelineVars>>

ImportCode ==
    /\ pc = "import_codes"
    /\ IF Len(pq_table) < Len(db_ids)
       THEN LET i == Len(pq_table) + 1
            IN  /\ pq_table' = Append(pq_table, [id |-> db_ids[i], code_vector |-> codes[i]])
                /\ UNCHANGED pc
       ELSE /\ pc' = "ingested"
            /\ UNCHANGED pq_table
    /\ UNCHANGED <<error, codebook, codecVars, entry, query_vec, top_n, final_k, raw_table>>
    /\ UNCHANGED <<scoreVars, sql_log, rows, results, trainVars, pipelineVars>>

\* run_search lines 195-225, in a new process that holds no codebook yet:
\* read the budgets, look the query word up in the raw table (a word is
\* identified with the id of its row; 0 is a word the table does not hold)
\* and take that row's vector as the query
RunSearch ==
    /\ pc = "ingested"
    /\ entry' = "run_search"
    /\ top_n' \in 1..MaxIngest
    /\ final_k' \in 1..MaxIngest
    /\ sql_log' = Append(sql_log, "select_word")
    /\ \E word \in 0..Len(vectors) :
          IF word \in DOMAIN raw_table
          THEN /\ query_vec' = raw_table[word]
               /\ pc' = "load_codebook"
          ELSE /\ pc' = "word_not_found"
               /\ UNCHANGED query_vec
    /\ codebook' = <<>>
    /\ UNCHANGED <<error, codecVars, pq_table, raw_table, scoreVars>>
    /\ UNCHANGED <<rows, results, trainVars, pipelineVars>>

\* run_search lines 231-232: load_codebook(export_codebook or "codebook.pkl"),
\* whose FileNotFoundError nothing catches
LoadForSearchFallback ==
    /\ pc = "load_codebook"
    /\ filepath' = ConfigGet("export_codebook", "codebook.pkl")
    /\ codebook' = IF IsFile(files, filepath') THEN Loaded(files, filepath')
                   ELSE centroid_table
    /\ pc' = "build_table"
    /\ UNCHANGED <<error, codecVars, queryVars, scoreVars, sql_log, rows, results>>
    /\ UNCHANGED <<trainVars, loop, other, files, saves, ingestVars>>

LoadForSearch ==
    /\ pc = "load_codebook"
    /\ filepath' = ConfigGet("export_codebook", "codebook.pkl")
    /\ IF ~IsFile(files, filepath')
       THEN /\ error' = "FileNotFoundError"
            /\ pc' = "failed"
            /\ UNCHANGED codebook
       ELSE /\ codebook' = Loaded(files, filepath')
            /\ pc' = "build_table"
            /\ UNCHANGED error
    /\ UNCHANGED <<codecVars, queryVars, scoreVars, sql_log, rows, results>>
    /\ UNCHANGED <<trainVars, loop, other, files, saves, ingestVars>>

ConfigValues == {"unset", ""} \cup Paths

\* the state run_ingest starts in (lines 62-85): configuration and embeddings
\* read, tables empty or left behind by an earlier ingest
InitIngest ==
    /\ pc = "init_tables"
    /\ entry = "run_ingest"
    /\ \E s \in IngestShapes :
          /\ dim = s[1]
          /\ m_subspaces = s[2]
          /\ m = s[2]
          /\ nbits = s[3]
          /\ \E n \in 0..MaxIngest : vectors \in [1..n -> Vectors(s[1])]
          /\ files \in FileSystems(<<s[2], s[3], s[1] \div s[2]>>)
          /\ \E stale \in BOOLEAN :
                /\ raw_table = IF stale THEN <<[t \in 1..s[1] |-> 0]>> ELSE <<>>
                /\ pq_table = IF stale
                              THEN <<[id |-> 1, code_vector |-> [j \in 1..s[2] |-> 1]]>>
                              ELSE <<>>
    /\ config \in [{"codebook_file", "export_codebook"} -> ConfigValues]
    /\ train_size = 0
    /\ train_vecs = "unset"
    /\ log_out = <<>>
    /\ pq = "none"
    /\ saves = <<>>
    /\ filepath = ""
    /\ db_ids = <<>>
    /\ centroid_table = <<>>
    /\ centroids = <<>>
    /\ codebook = <<>>
    /\ assign = <<>>
    /\ codes_packed = <<>>
    /\ codes = <<>>
    /\ NoDecodeLoop
    /\ NoOther
    /\ error = "none"
    /\ query_vec = <<>>
    /\ top_n = 0
    /\ final_k = 0
    /\ sql_log = <<>>
    /\ dist_table = <<>>
    /\ rows = <<>>
    /\ ids = <<>>
    /\ scores = <<>>
    /\ candidate_ids = <<>>
    /\ approx_dists = <<>>
    /\ results = <<>>

NextPipeline ==
    \/ InitTables \/ ImportRawVector \/ ChooseCodebook
    \/ CheckDim \/ SelectTraining \/ Augment \/ Train
    \/ ExtractCodebook \/ RecreateQuantizer \/ EncodeVectors
    \/ ImportCodebook \/ ImportCode
    \/ RunSearch \/ LoadForSearch
    \/ BuildTable \/ FetchCodes \/ Score \/ TopN \/ FetchRaw \/ Rerank

SpecPipeline == InitIngest /\ [][NextPipeline]_vars

\* positions of run_ingest at which step 4 has made its choice
AfterChoice ==
    pc \notin {"init_tables", "import_raw", "choose_codebook"}

\* train_pq has been called
TrainCalled ==
    \/ pc \in {"check_dim", "select", "augment", "train", "trained"}
    \/ error \in {"AssertionError", "ZeroDivisionError"}
    \/ "INFO" \in Range(log_out)

\* when step 4 chose, codebook_file was unset, empty or named no file (files
\* appear only through the saves of this run)
NoCodebookFileAtChoice ==
    LET codebook_file == ConfigGet("codebook_file", "")
    IN  \/ codebook_file = ""
        \/ ~IsFile(files, codebook_file)
        \/ SavesTo(codebook_file) # {}

\* C15: load_codebook on a path that names no file raises FileNotFoundError
\* and yields no codebook; run_ingest with an unset or absent codebook file
\* calls train_pq instead of loading; in run_search the error ends the run
\* before the search has read the code store or the raw store, and a search
\* runs only with a codebook file that exists.
C15_MissingCodebookFile ==
    /\ error = "FileNotFoundError" =>
          /\ pc = "failed"
          /\ entry = "run_search"
          /\ ~IsFile(files, filepath)
          /\ codebook = <<>>
          /\ sql_log = <<"select_word">>
          /\ dist_table = <<>>
          /\ candidate_ids = <<>>
          /\ results = <<>>
    /\ (entry = "run_ingest" /\ AfterChoice /\ NoCodebookFileAtChoice) =>
          /\ TrainCalled
          /\ filepath = ""
    /\ (entry = "run_search" /\ pc \notin {"load_codebook", "word_not_found", "failed"}) =>
          /\ IsFile(files, filepath)
          /\ codebook = Loaded(files, filepath)

\* an ingest with no codebook_file key trained on two vectors, exported
\* nothing, and the search that followed found no codebook.pkl
C15_Witness ==
    /\ entry = "run_search"
    /\ pc = "failed"
    /\ error = "FileNotFoundError"
    /\ config = [codebook_file |-> "unset", export_codebook |-> "unset"]
    /\ filepath = "codebook.pkl"
    /\ DOMAIN files = {"other.pkl"}
    /\ "INFO" \in Range(log_out)
    /\ Len(pq_table) = 2

\* the ingest has returned normally (a search may have followed)
IngestSucceeded ==
    \/ pc = "ingested"
    \/ entry = "run_search"

\* C17: from the moment run_ingest has re-created the tables, every row of the
\* code store carries an id that has a row in the raw store, no two code rows
\* carry the same id, and the row's code is the encoding, under the quantizer
\* of this ingest, of the raw vector stored under its id; once the ingest has
\* succeeded, the corpus items, the raw rows and the code rows correspond one
\* to one.
C17_CodeRowsMatchRawRows ==
    pc # "init_tables" =>
        /\ \A a \in 1..Len(pq_table) :
              /\ pq_table[a].id \in DOMAIN raw_table
              /\ pq_table[a].code_vector =
                    AssignVector(raw_table[pq_table[a].id],
                                 Reshape(centroids, CodebookShape))
        /\ \A a, b \in 1..Len(pq_table) : a # b => pq_table[a].id # pq_table[b].id
        /\ IngestSucceeded =>
              /\ Len(pq_table) = Len(vectors)
              /\ DOMAIN raw_table = 1..Len(vectors)
              /\ {pq_table[a].id : a \in 1..Len(pq_table)} = 1..Len(vectors)
              /\ \A i \in 1..Len(vectors) : raw_table[i] = vectors[i]

\* an ingest of two vectors that received different codes has succeeded
C17_Witness ==
    /\ pc = "ingested"
    /\ Len(vectors) = 2
    /\ Len(pq_table) = 2
    /\ pq_table[1].code_vector # pq_table[2].code_vector
    /\ raw_table[1] # raw_table[2]

\* run_ingest is at or past its call of encode_vectors
EncodingStarted ==
    /\ entry = "run_ingest"
    /\ pc \in {"encode", "import_codebook", "import_codes", "ingested"}

\* the codebook of the ingest exists in full: training has returned or the
\* file was loaded, and all M * K * Dsub values the configuration asks for are
\* there, the quantizer holding the same values
CodebookComplete ==
    /\ "INFO" \in Range(log_out) \/ filepath # ""
    /\ <<ShapeM(codebook), ShapeK(codebook), ShapeDsub(codebook)>> = CodebookShape
    /\ centroids = Ravel(codebook)

\* while run_ingest is at or past encoding, a step changes neither the
\* codebook nor the quantizer's centroids
CodebookFrozen ==
    (EncodingStarted /\ entry' = "run_ingest") =>
        (codebook' = codebook /\ centroids' = centroids)

\* what is in the stores was made with the one codebook of this ingest
StoresUseCodebook ==
    /\ centroid_table # <<>> => centroid_table = codebook
    /\ \A a \in 1..Len(pq_table) :
          /\ centroid_table # <<>>
          /\ pq_table[a].code_vector = AssignVector(raw_table[pq_table[a].id], centroid_table)

\* C20: in run_ingest nothing is encoded before the codebook is complete
\* (training returned, or the file loaded), no step at or after encoding
\* changes the codebook or the quantizer's centroids, and the codebook that is
\* imported into the centroid store is the one every stored code was encoded
\* against.
C20_EncodeAfterCodebook ==
    /\ [](EncodingStarted => (CodebookComplete /\ StoresUseCodebook))
    /\ []((entry = "run_ingest" /\ ~EncodingStarted) =>
             (assign = <<>> /\ codes = <<>> /\ pq_table = <<>> /\ centroid_table = <<>>)
             \/ pc = "init_tables")
    /\ [][CodebookFrozen]_vars

\* a trained ingest has encoded two vectors to different codes and imported
\* codebook and codes
C20_Witness ==
    /\ entry = "run_ingest"
    /\ pc = "ingested"
    /\ "INFO" \in Range(log_out)
    /\ filepath = ""
    /\ Len(codes) = 2
    /\ codes[1] # codes[2]
    /\ centroid_table = codebook
    /\ Len(pq_table) = 2

(***************************************************************************)
(* Two searches at the same time over one codebook, one code store and one *)
(* raw store.  Each search has its own connection and cursor, as each      *)
(* run_search process creates them (main.py line 198); the first search    *)
(* uses the variables of the single-search model, the second keeps its     *)
(* locals in the record other.  A step of a search is one of the steps of  *)
(* the single-search model.                                                *)
(***************************************************************************)
\* the locals of a search that has been called and has not run yet
Called(q, n_top, k) ==
    [pc |-> "build_table", error |-> "none", query_vec |-> q, top_n |-> n_top,
     final_k |-> k, dist_table |-> <<>>, rows |-> <<>>, ids |-> <<>>, scores |-> <<>>,
     candidate_ids |-> <<>>, approx_dists |-> <<>>, results |-> <<>>]

\* the possible next locals of a search with locals q (search.py lines 86-125,
\* 154-203), reading the shared codebook and stores
Steps(q) ==
    CASE q.pc = "build_table" ->
            IF ~QueryDimMatches(q.query_vec, codebook)
            THEN {[q EXCEPT !.pc = "failed", !.error = "AssertionError"]}
            ELSE {[q EXCEPT !.pc = "fetch_codes",
                            !.dist_table = _build_distance_table(q.query_vec, codebook)]}
      [] q.pc = "fetch_codes" ->
            {[q EXCEPT !.pc = "score", !.rows = pq_table]}
      [] q.pc = "score" ->
            {[q EXCEPT !.pc = "top_n",
                       !.ids = [idx \in 1..Len(q.rows) |-> q.rows[idx].id],
                       !.scores = [idx \in 1..Len(q.rows) |->
                                      ScoreLoop(q.dist_table, q.rows[idx].code_vector, 0,
                                                ShapeM(codebook), 0)]]}
      [] q.pc = "top_n" ->
            {[q EXCEPT !.pc = "post_verify",
                       !.candidate_ids = [a \in 1..Len(top_indices) |-> q.ids[top_indices[a]]],
                       !.approx_dists = [a \in 1..Len(top_indices) |-> q.scores[top_indices[a]]]] :
                top_indices \in TopIndices(q.scores, q.top_n)}
      [] q.pc = "post_verify" ->
            IF q.candidate_ids = <<>>
            THEN {[q EXCEPT !.pc = "done", !.results = <<>>]}
            ELSE LET hit == Range(q.candidate_ids) \cap DOMAIN raw_table
                 IN  {[q EXCEPT !.pc = "rerank",
                                !.rows = [a \in 1..Cardinality(hit) |->
                                             [id |-> order[a], vector |-> raw_table[order[a]]]]] :
                         order \in {o \in [1..Cardinality(hit) -> hit] : Range(o) = hit}}
      [] q.pc = "rerank" ->
            {[q EXCEPT !.pc = "done",
                       !.results = RankedResults(q.query_vec, q.rows, q.final_k)]}
      [] OTHER -> {}

\* a step of the second search
OtherStep ==
    /\ other # <<>>
    /\ other' \in Steps(other)
    /\ UNCHANGED <<pc, error, codebook, codecVars, queryVars, scoreVars>>
    /\ UNCHANGED <<sql_log, rows, results, trainVars, loop, fileVars, ingestVars>>

\* two calls of search_pq_with_post_verification over the same snapshot, with
\* the budgets both run_search processes read from the one configuration
\* (main.py lines 195-196)
InitConcurrent ==
    /\ pc = "build_table"
    /\ entry = "search_pq_with_post_verification"
    /\ top_n \in 1..MaxSharedBudget
    /\ final_k \in 1..MaxSharedBudget
    /\ \E s \in SearchShapes :
          /\ m = s[1]
          /\ nbits = s[2]
          /\ codebook \in Codebooks(s)
          /\ query_vec \in Vectors(s[1] * s[3])
          /\ \E q \in Vectors(s[1] * s[3]) : other = Called(q, top_n, final_k)
          /\ \E n \in 0..MaxShared :
                /\ pq_table \in CodeStores(s, n)
                /\ raw_table \in [1..n -> Vectors(s[1] * s[3])]
    /\ candidate_ids = <<>>
    /\ NoCodec
    /\ TrainIdle
    /\ NoDecodeLoop
    /\ NoFiles
    /\ NoIngest
    /\ error = "none"
    /\ sql_log = <<>>
    /\ dist_table = <<>>
    /\ rows = <<>>
    /\ ids = <<>>
    /\ scores = <<>>
    /\ approx_dists = <<>>
    /\ results = <<>>

NextConcurrent ==
    \/ BuildTable \/ FetchCodes \/ Score \/ TopN \/ FetchRaw \/ Rerank
    \/ OtherStep

SpecConcurrent == InitConcurrent /\ [][NextConcurrent]_vars

\* the locals a search with locals q can end with when it runs alone
RECURSIVE AloneFrom(_)
AloneFrom(q) ==
    IF q.pc \in {"done", "failed"} THEN {q}
    ELSE UNION {AloneFrom(r) : r \in Steps(q)}

\* what a search called with (q, n_top, k) can return when it runs alone
AloneResults(q, n_top, k) ==
    {[error |-> r.error, results |-> r.results] : r \in AloneFrom(Called(q, n_top, k))}

\* C13: no step of a search changes the codebook, the code store or the raw
\* store, and in every interleaving of two searches over the same snapshot
\* each search ends with a result (or error) it can end with when it runs
\* alone.
C13_SearchesDoNotInterfere ==
    /\ [][/\ codebook' = codebook
          /\ pq_table' = pq_table
          /\ raw_table' = raw_table]_vars
    /\ []((other # <<>> /\ pc \in {"done", "failed"}) =>
             [error |-> error, results |-> results]
                \in AloneResults(query_vec, top_n, final_k))
    /\ []((other # <<>> /\ other.pc \in {"done", "failed"}) =>
             [error |-> other.error, results |-> other.results]
                \in AloneResults(other.query_vec, other.top_n, other.final_k))

\* both searches, with different queries, have returned two results over a
\* store of two rows, and their nearest rows differ
C13_Witness ==
    /\ other # <<>>
    /\ pc = "done"
    /\ other.pc = "done"
    /\ Len(pq_table) = 2
    /\ query_vec # other.query_vec
    /\ Len(results) = 2
    /\ Len(other.results) = 2
    /\ results[1].id # other.results[1].id

(***************************************************************************)
(* Recall specification: the same query searched with two values of top_n  *)
(***************************************************************************)
\* a step of the second search, called when the first has returned
SearchAgain ==
    /\ pc = "done"
    /\ OtherStep

\* search_pq_with_post_verification called twice with the same query, codebook,
\* stores and final_k, the second call with the larger top_n
InitRecall ==
    /\ pc = "build_table"
    /\ entry = "search_pq_with_post_verification"
    /\ top_n \in 1..MaxRecallBudget
    /\ final_k \in 1..MaxRecallBudget
    /\ \E s \in SearchShapes :
          /\ m = s[1]
          /\ nbits = s[2]
          /\ codebook \in Codebooks(s)
          /\ query_vec \in Vectors(s[1] * s[3])
          /\ \E n \in 0..MaxRecallCorpus :
                /\ pq_table \in CodeStores(s, n)
                /\ raw_table \in [1..n -> Vectors(s[1] * s[3])]
    /\ \E n_top \in (top_n + 1)..(MaxRecallBudget + 1) :
          other = Called(query_vec, n_top, final_k)
    /\ candidate_ids = <<>>
    /\ NoCodec
    /\ TrainIdle
    /\ NoDecodeLoop
    /\ NoFiles
    /\ NoIngest
    /\ error = "none"
    /\ sql_log = <<>>
    /\ dist_table = <<>>
    /\ rows = <<>>
    /\ ids = <<>>
    /\ scores = <<>>
    /\ approx_dists = <<>>
    /\ results = <<>>

NextRecall ==
    \/ BuildTable \/ FetchCodes \/ Score \/ TopN \/ FetchRaw \/ Rerank
    \/ SearchAgain

SpecRecall == InitRecall /\ [][NextRecall]_vars

\* the true exact top-final_k neighbours of the query: the ids with fewer than
\* final_k strictly nearer raw vectors (rows tied at the k-th distance all count)
TrueNeighbours ==
    {i \in DOMAIN raw_table :
        Cardinality({j \in DOMAIN raw_table : ExactDistance(j) < ExactDistance(i)})
            < final_k}

\* the number of true neighbours a result list contains
Recall(res) == Cardinality({a \in 1..Len(res) : res[a].id \in TrueNeighbours})

BothReturned ==
    /\ other # <<>>
    /\ pc = "done"
    /\ other.pc = "done"
    /\ other.query_vec = query_vec
    /\ other.final_k = final_k
    /\ top_n <= other.top_n

\* the n_top rows of lowest approximate score are determined: no row outside
\* them has the score of a row inside them
CandidateCutUnique(sc, n_top) ==
    \/ n_top >= Len(sc)
    \/ \E v \in Range(sc) : Cardinality({a \in 1..Len(sc) : sc[a] <= v}) = n_top

\* C14 as stated: whenever the same query has been searched with top_n and
\* with a larger top_n, the second result holds at least as many true exact
\* top-final_k neighbours as the first.
C14_RecallNeverDecreases ==
    BothReturned => Recall(other.results) >= Recall(results)

\* C14, amended: the second result holds at least as many true neighbours as
\* the first whenever no approximate score ties across the cut of the smaller
\* top_n.
C14_RecallMonotoneWithoutTies ==
    (BothReturned /\ CandidateCutUnique(scores, top_n)) =>
        Recall(other.results) >= Recall(results)

\* three rows, one of lowest approximate score and two tied above it: top_n = 1
\* missed the one true nearest neighbour, top_n = 2 found it
C14_Witness ==
    /\ BothReturned
    /\ Len(pq_table) = 3
    /\ top_n = 1
    /\ other.top_n = 2
    /\ final_k = 1
    /\ CandidateCutUnique(scores, top_n)
    /\ ~CandidateCutUnique(scores, other.top_n)
    /\ Cardinality(TrueNeighbours) = 1
    /\ Recall(results) = 0
    /\ Recall(other.results) = 1

\* three rows of one approximate score: top_n = 1 kept the nearest row, top_n = 2
\* kept the two others
C14_RecallDropped ==
    /\ BothReturned
    /\ Len(pq_table) = 3
    /\ top_n = 1
    /\ other.top_n = 2
    /\ final_k = 1
    /\ \A a, b \in 1..Len(scores) : scores[a] = scores[b]
    /\ Cardinality(TrueNeighbours) = 1
    /\ Recall(results) = 1
    /\ Recall(other.results) = 0

(***************************************************************************)
(* The codebook of a search after an ingest                                *)
(***************************************************************************)
\* the codebook whose centroids the quantizer of run_ingest encoded with
\* (main.py line 152, pq.centroids)
EncodingCodebook == Reshape(centroids, CodebookShape)

\* run_search holds a codebook: load_codebook has returned
SearchHoldsCodebook ==
    /\ entry = "run_search"
    /\ pc \notin {"load_codebook", "word_not_found", "failed"}

\* C21: in a run_search that follows a successful run_ingest, the codebook
\* the distance table is built from is the codebook run_ingest encoded the
\* stored codes with, whatever codebook_file and export_codebook are.
C21_SearchUsesIngestCodebook ==
    SearchHoldsCodebook => codebook = EncodingCodebook

\* an ingest with neither key set trained a codebook, exported nothing, and
\* the search that followed ranked two rows with the codebook an older
\* codebook.pkl held
C21_StaleCodebookSearched ==
    /\ entry = "run_search"
    /\ pc = "done"
    /\ config = [codebook_file |-> "unset", export_codebook |-> "unset"]
    /\ "INFO" \in Range(log_out)
    /\ saves = <<>>
    /\ filepath = "codebook.pkl"
    /\ codebook # EncodingCodebook
    /\ centroid_table = EncodingCodebook
    /\ Len(pq_table) = 2
    /\ Len(results) >= 1

(***************************************************************************)
(* A search whose budget covers the whole code store                       *)
(***************************************************************************)
\* the identifiers the code store holds
StoredIds == {pq_table[a].id : a \in 1..Len(pq_table)}

\* phase 1 keeps every stored code and every stored id has a raw vector
FullBudget ==
    /\ entry = "search_pq_with_post_verification"
    /\ top_n >= Len(pq_table)
    /\ StoredIds \subseteq DOMAIN raw_table

\* C22: a search whose top_n is at least the number of stored codes, over a
\* raw store holding every stored id, with a query of the codebook's
\* dimension, raises no error and returns min(final_k, corpus size) distinct
\* corpus entries, each with its exact squared distance, ascending, none of
\* the entries left out being nearer than a returned one, whatever the
\* codebook and the stored codes are.
C22_FullBudgetIsExact ==
    /\ (FullBudget /\ QueryDimMatches(query_vec, codebook)) => error = "none"
    /\ (FullBudget /\ pc = "done") =>
          /\ Len(results) = Min(final_k, Len(pq_table))
          /\ \A a \in 1..Len(results) :
                /\ results[a].id \in StoredIds
                /\ results[a].distance = ExactDistance(results[a].id)
          /\ \A a, b \in 1..Len(results) :
                /\ a # b => results[a].id # results[b].id
                /\ a < b => results[a].distance <= results[b].distance
          /\ \A i \in StoredIds \ ResultIds :
                \A a \in 1..Len(results) : ExactDistance(i) >= results[a].distance

\* three stored rows, top_n = 3, final_k = 2: the code of lowest approximate
\* score belongs to a row that is not returned and is farther than the nearest
\* row, which had the highest approximate score
C22_Witness ==
    /\ FullBudget
    /\ pc = "done"
    /\ Len(pq_table) = 3
    /\ top_n = 3
    /\ final_k = 2
    /\ Len(results) = 2
    /\ approx_dists[1] < approx_dists[3]
    /\ candidate_ids[1] \notin ResultIds
    /\ ExactDistance(candidate_ids[1]) > results[1].distance
    /\ results[1].id = candidate_ids[3]
    /\ results[1].distance < results[2].distance

(***************************************************************************)
(* Import specification: import_raw_vectors and import_pq_codes            *)
(***************************************************************************)
\* the id a SERIAL column gives the next inserted row: above every id the
\* table holds, sequence values lost to other transactions being skipped
SerialIds(table) ==
    LET last == IF DOMAIN table = {} THEN 0
                ELSE CHOOSE i \in DOMAIN table : \A j \in DOMAIN table : j <= i
    IN  {last + 1, last + 2}

\* db_importer.py line 67 / line 161: the batch goes to the database when it
\* holds batch_size items or the item is the last one
BatchDueWhenFull(batch, i) == Len(batch) >= loop.batch_size

BatchDue(batch, i) == Len(batch) >= loop.batch_size \/ i = loop.n - 1

\* import_raw_vectors lines 63-67: the next item joins values_batch
RawBatchAppend ==
    /\ pc = "raw_loop"
    /\ loop.i < loop.n
    /\ LET batch == Append(loop.values_batch, vectors[loop.i + 1])
       IN  /\ loop' = [loop EXCEPT !.values_batch = batch,
                                   !.i = IF BatchDue(batch, loop.i) THEN @ ELSE @ + 1]
           /\ pc' = IF BatchDue(batch, loop.i) THEN "raw_flush" ELSE "raw_loop"
    /\ UNCHANGED <<error, codebook, codecVars, queryVars, scoreVars, sql_log, rows, results>>
    /\ UNCHANGED <<trainVars, fileVars, ingestVars, other>>

\* lines 79-81: one INSERT ... RETURNING id of the batch, its id appended to db_ids
RawBatchExecute ==
    /\ pc = "raw_flush"
    /\ loop.sent < Len(loop.values_batch)
    /\ \E id \in SerialIds(raw_table) :
          /\ raw_table' = [a \in DOMAIN raw_table \cup {id} |->
                              IF a = id THEN loop.values_batch[loop.sent + 1]
                              ELSE raw_table[a]]
          /\ db_ids' = Append(db_ids, id)
    /\ sql_log' = Append(sql_log, "insert")
    /\ loop' = [loop EXCEPT !.sent = @ + 1]
    /\ UNCHANGED <<pc, error, codebook, codecVars, entry, query_vec, top_n, final_k, pq_table>>
    /\ UNCHANGED <<scoreVars, rows, results, trainVars, fileVars, other>>
    /\ UNCHANGED <<config, centroid_table, centroids>>

\* lines 82-85: con.commit() after the batch, values_batch = []
RawBatchCommit ==
    /\ pc = "raw_flush"
    /\ loop.sent = Len(loop.values_batch)
    /\ sql_log' = Append(sql_log, "commit")
    /\ loop' = [loop EXCEPT !.values_batch = <<>>, !.sent = 0, !.i = @ + 1]
    /\ pc' = "raw_loop"
    /\ UNCHANGED <<error, codebook, codecVars, queryVars, scoreVars, rows, results>>
    /\ UNCHANGED <<trainVars, fileVars, ingestVars, other>>

\* import_pq_codes lines 157-161: the next (id, code) pair joins values_batch
CodesBatchAppend ==
    /\ pc = "codes_loop"
    /\ loop.i < loop.n
    /\ LET batch == Append(loop.values_batch,
                           [id |-> db_ids[loop.i + 1], code_vector |-> codes[loop.i + 1]])
       IN  /\ loop' = [loop EXCEPT !.values_batch = batch,
                                   !.i = IF BatchDue(batch, loop.i) THEN @ ELSE @ + 1]
           /\ pc' = IF BatchDue(batch, loop.i) THEN "codes_flush" ELSE "codes_loop"
    /\ UNCHANGED <<error, codebook, codecVars, queryVars, scoreVars, sql_log, rows, results>>
    /\ UNCHANGED <<trainVars, fileVars, ingestVars, other>>

\* lines 162-165: cur.executemany inserts the batch in order, con.commit(),
\* values_batch = []
CodesBatchFlush ==
    /\ pc = "codes_flush"
    /\ pq_table' = pq_table \o loop.values_batch
    /\ sql_log' = sql_log \o [a \in 1..Len(loop.values_batch) |-> "insert"] \o <<"commit">>
    /\ loop' = [loop EXCEPT !.values_batch = <<>>, !.i = @ + 1]
    /\ pc' = "codes_loop"
    /\ UNCHANGED <<error, codebook, codecVars, entry, query_vec, top_n, final_k, raw_table>>
    /\ UNCHANGED <<scoreVars, rows, results, trainVars, fileVars, ingestVars, other>>

\* the for loop has run out of items: the importer returns (line 88 returns
\* db_ids, line 167)
ImportReturn ==
    /\ pc \in {"raw_loop", "codes_loop"}
    /\ loop.i = loop.n
    /\ pc' = "done"
    /\ UNCHANGED <<error, codebook, codecVars, queryVars, scoreVars, sql_log, rows, results>>
    /\ UNCHANGED <<trainVars, pipelineVars>>

\* a call of import_raw_vectors(vectors, metadata, ..., batch_size) with as
\* many metadata entries as vectors, or of import_pq_codes(codes, db_ids, ...,
\* batch_size), on a table that is empty or holds an older row
InitImport ==
    /\ entry \in {"import_raw_vectors", "import_pq_codes"}
    /\ pc = IF entry = "import_raw_vectors" THEN "raw_loop" ELSE "codes_loop"
    /\ nbits = 1
    /\ m = 1
    /\ \E n \in 0..MaxItems, stale \in BOOLEAN :
          /\ \E batch_size \in 1..MaxBatch :
                loop = [i |-> 0, n |-> n, batch_size |-> batch_size,
                        values_batch |-> <<>>, sent |-> 0]
          /\ IF entry = "import_raw_vectors"
             THEN /\ vectors \in [1..n -> Vectors(1)]
                  /\ codes = <<>>
                  /\ db_ids = <<>>
                  /\ raw_table = IF stale THEN <<<<0>>>> ELSE <<>>
                  /\ pq_table = <<>>
             ELSE /\ vectors = <<>>
                  /\ codes \in [1..n -> [1..1 -> 0..1]]
                  /\ \E base \in 0..1 : db_ids = [a \in 1..n |-> base + a]
                  /\ raw_table = <<>>
                  /\ pq_table = IF stale THEN <<[id |-> 9, code_vector |-> <<0>>]>> ELSE <<>>
    /\ codebook = <<>>
    /\ assign = <<>>
    /\ codes_packed = <<>>
    /\ TrainIdle
    /\ NoFiles
    /\ config = [codebook_file |-> "", export_codebook |-> ""]
    /\ centroid_table = <<>>
    /\ centroids = <<>>
    /\ NoOther
    /\ error = "none"
    /\ query_vec = <<>>
    /\ top_n = 0
    /\ final_k = 0
    /\ sql_log = <<>>
    /\ dist_table = <<>>
    /\ rows = <<>>
    /\ ids = <<>>
    /\ scores = <<>>
    /\ candidate_ids = <<>>
    /\ approx_dists = <<>>
    /\ results = <<>>

NextImport ==
    \/ RawBatchAppend \/ RawBatchExecute \/ RawBatchCommit
    \/ CodesBatchAppend \/ CodesBatchFlush
    \/ ImportReturn

SpecImport == InitImport /\ [][NextImport]_vars

\* an importer is running or has returned
Importing == entry \in {"import_raw_vectors", "import_pq_codes"}

\* number of INSERTs among the first p statements of the log
InsertsBefore(p) == Cardinality({a \in 1..(p - 1) : sql_log[a] = "insert"})

\* number of items whose INSERT has been executed
Inserted == InsertsBefore(Len(sql_log) + 1)

\* a commit follows an INSERT that completes a batch of batch_size items or is
\* the INSERT of the last item, and every such INSERT is followed by a commit
\* before the next INSERT
CommitsPerBatch ==
    \A p \in 1..Len(sql_log) :
        LET c == InsertsBefore(p)
        IN  /\ sql_log[p] = "commit" =>
                  /\ p > 1
                  /\ sql_log[p - 1] = "insert"
                  /\ (c % loop.batch_size = 0 \/ c = loop.n)
            /\ (sql_log[p] = "insert" /\ c > 0 /\ c % loop.batch_size = 0) =>
                  sql_log[p - 1] = "commit"

\* the rows the raw importer has inserted are the first items, in input order,
\* db_ids[i] being the id of item i; rows the table held before are untouched
RawRowsInOrder ==
    /\ Len(db_ids) = Inserted
    /\ \A a, b \in 1..Len(db_ids) : a < b => db_ids[a] < db_ids[b]
    /\ \A a \in 1..Len(db_ids) :
          /\ db_ids[a] \in DOMAIN raw_table
          /\ raw_table[db_ids[a]] = vectors[a]
    /\ Cardinality(DOMAIN raw_table \ Range(db_ids)) <= 1
    /\ \A i \in DOMAIN raw_table \ Range(db_ids) : i = 1 /\ raw_table[i] = <<0>>

\* the rows the code importer has inserted are the first (id, code) pairs, in
\* input order, after the rows the table held before
CodeRowsInOrder ==
    LET old == IF pq_table # <<>> /\ pq_table[1].id = 9 THEN 1 ELSE 0
    IN  /\ Len(pq_table) = old + Inserted
        /\ \A a \in 1..Inserted :
              pq_table[old + a] = [id |-> db_ids[a], code_vector |-> codes[a]]

\* C23: while import_raw_vectors or import_pq_codes runs with batch_size >= 1,
\* the rows inserted so far are the first items in input order, each once
\* (for the raw importer db_ids lists their ids in that order), and a commit
\* comes exactly after every batch_size-th INSERT and after the INSERT of the
\* last item; when the importer returns all n items are inserted and
\* committed, the batch buffer is empty, and db_ids has length n.
C23_BatchedImport ==
    Importing =>
        /\ CommitsPerBatch
        /\ Inserted <= loop.n
        /\ entry = "import_raw_vectors" => RawRowsInOrder
        /\ entry = "import_pq_codes" => CodeRowsInOrder
        /\ pc = "done" =>
              /\ Inserted = loop.n
              /\ loop.values_batch = <<>>
              /\ Len(db_ids) = loop.n
              /\ sql_log = <<>> \/ sql_log[Len(sql_log)] = "commit"
              /\ sql_log = <<>> <=> loop.n = 0

\* import_raw_vectors returned after three items in batches of two: one
\* commit after the second INSERT, one after the third
C23_Witness ==
    /\ entry = "import_raw_vectors"
    /\ pc = "done"
    /\ loop.n = 3
    /\ loop.batch_size = 2
    /\ sql_log = <<"insert", "insert", "commit", "insert", "commit">>
    /\ Len(db_ids) = 3
    /\ vectors[1] # vectors[2]
    /\ raw_table[db_ids[1]] = vectors[1]
    /\ raw_table[db_ids[3]] = vectors[3]

====
